---------------------------- MODULE Spec2Model ----------------------------
(***************************************************************************)
(* Model of the Streamlit dashboard of python_coding_test:                 *)
(*   pages/data_analysis.py   load_uploaded_data                           *)
(*   pages/visualization.py   render_data_filtering,                       *)
(*                            render_visualization_page                    *)
(*   components/charts.py     create_bar_chart, create_line_chart,         *)
(*                            create_scatter_plot                          *)
(* A dataset (pandas DataFrame) is a record [cols, rows]: cols the column  *)
(* labels in order, rows a sequence of rows, each row a sequence of cells  *)
(* aligned with cols.                                                      *)
(***************************************************************************)
EXTENDS Integers, Sequences, FiniteSets, TLC

VARIABLES
    uploaded_file,   \* the sidebar's st.file_uploader value (NoFile or a file)
    load_result,     \* outcome of the last load_uploaded_data call
    sample_data,     \* the dataset the page works on (st.session_state.sample_data)
    widget_state,    \* st.session_state entries of the filter widgets, by key
    filtered_df,     \* what render_data_filtering returned in the last run
    chart_call,      \* the arguments of the last create_* call
    chart_outcome,   \* what that call returned or raised
    data_source,     \* the value of the page's "Select Data Source" radio
    rendered,        \* what the last run of the visualization page did
    chart_config,    \* the last render_chart_controls call: its dataset and what it returned
    analysis_df,     \* the dataset handed to the data analysis page's sections
    quality_report,  \* what render_data_quality_check and render_data_overview showed for it
    stat_summary,    \* what render_statistical_summary showed for it, or the error it raised
    rng_state,       \* numpy's global random generator: its seed and the values drawn since
    sample_cache,    \* the st.cache_data entry of load_sample_data, None when cleared
    sample_returns,  \* the datasets the load_sample_data calls returned, oldest first
    session_state,   \* st.session_state of every browser session, by session
    enable_caching,  \* the sidebar's "Enable Data Caching" value of every session
    log_level,       \* the log level of the server process
    last_run         \* what the last rerun of every session did, None before the first

loadVars == <<uploaded_file, load_result>>
filterVars == <<sample_data, widget_state, filtered_df>>
chartVars == <<chart_call, chart_outcome>>
pageVars == <<data_source, rendered>>
analysisVars == <<chart_config, analysis_df, quality_report, stat_summary>>
sampleVars == <<rng_state, sample_cache, sample_returns>>
sessionVars == <<session_state, enable_caching, log_level, last_run>>

vars == <<uploaded_file, load_result, sample_data, widget_state, filtered_df,
          chart_call, chart_outcome, data_source, rendered,
          chart_config, analysis_df, quality_report, stat_summary,
          rng_state, sample_cache, sample_returns,
          session_state, enable_caching, log_level, last_run>>

(***************************************************************************)
(* Bounds                                                                  *)
(***************************************************************************)
MaxDataLines == 2      \* lines after the header line of an uploaded CSV text
MaxRecords == 2        \* objects in an uploaded JSON array
MaxRows == 3           \* rows of a dataset given to the filter

(***************************************************************************)
(* Generic helpers                                                         *)
(***************************************************************************)
\* Python's None, where the other values are records
None == [none |-> TRUE]

RECURSIVE SeqsUpTo(_, _)
SeqsUpTo(S, n) ==
    IF n = 0 THEN {<<>>}
    ELSE LET shorter == SeqsUpTo(S, n - 1)
         IN  shorter \cup {Append(s, x) : s \in {t \in shorter : Len(t) = n - 1}, x \in S}

Range(s) == {s[i] : i \in 1..Len(s)}

\* Python str.endswith
EndsWith(s, suffix) ==
    /\ Len(s) >= Len(suffix)
    /\ SubSeq(s, Len(s) - Len(suffix) + 1, Len(s)) = suffix

\* no section of the data analysis page and no chart control has run
NothingAnalysed ==
    /\ chart_config = None
    /\ analysis_df = None
    /\ quality_report = None
    /\ stat_summary = None

\* no browser session is open; app.py:127 sets the log level to INFO
NoSessions ==
    /\ session_state = <<>>
    /\ enable_caching = <<>>
    /\ log_level = "INFO"
    /\ last_run = <<>>

\* load_sample_data has not been called and nothing has drawn a random number
NoSampleLoaded ==
    /\ rng_state = [seed |-> 0, used |-> 0]
    /\ sample_cache = None
    /\ sample_returns = <<>>

(***************************************************************************)
(* Uploaded files.  A CSV text is its sequence of lines, a line its        *)
(* sequence of comma-separated fields; <<"">> is a blank line.  A JSON     *)
(* text is either malformed or an array of flat objects, an object being   *)
(* its sequence of <<key, value>> members.  The empty string is a missing  *)
(* cell.  Cell typing is not modelled; the loader is modelled for the      *)
(* shape (labels, row count, cells) of what it returns.                    *)
(***************************************************************************)
FileNames ==
    {"d.csv", "d.json", "d.txt", "d.CSV", ".csv", "csv", "json",
     "d.csv.bak", "d.json.csv", "d.csv.json", "d.xlsx"}

HeaderLines == {<<"a">>, <<"a", "b">>, <<"b", "a">>, <<"a", "a">>, <<"">>}

DataLines == {<<"">>, <<"1">>, <<"1", "2">>, <<"", "2">>, <<"1", "2", "3">>}

CsvTexts ==
    {[fmt |-> "csv", lines |-> <<>>]} \cup
    {[fmt |-> "csv", lines |-> <<h>> \o d] :
        h \in HeaderLines, d \in SeqsUpTo(DataLines, MaxDataLines)}

JsonObjects ==
    { <<(<<"a", "1">>)>>,
      <<(<<"a", "1">>), (<<"b", "2">>)>>,
      <<(<<"b", "2">>), (<<"a", "">>)>>,
      <<(<<"b", "3">>)>> }

JsonTexts ==
    {[fmt |-> "json", wellformed |-> w, records |-> r] :
        w \in BOOLEAN, r \in SeqsUpTo(JsonObjects, MaxRecords)}

\* bytes that are not text at all (for example an invalid UTF-8 sequence)
Undecodable == [fmt |-> "binary"]

ContentsFor(name) ==
    IF EndsWith(name, ".csv") THEN CsvTexts \cup {Undecodable}
    ELSE IF EndsWith(name, ".json") THEN JsonTexts \cup {Undecodable}
    ELSE {Undecodable, [fmt |-> "csv", lines |-> <<(<<"a">>), (<<"1">>)>>],
          [fmt |-> "json", wellformed |-> TRUE, records |-> <<>>]}

Uploads ==
    UNION {{[name |-> n, content |-> c] : c \in ContentsFor(n)} : n \in FileNames}

NoFile == None

(***************************************************************************)
(* pandas.read_csv with default arguments                                  *)
(***************************************************************************)
Ok(df) == [ok |-> TRUE, df |-> df]
Raise(type, msg) == [ok |-> FALSE, exc |-> [type |-> type, msg |-> msg]]

IsBlankLine(line) == line = <<"">>

\* number of earlier occurrences of the label at position i
Earlier(header, i) == Cardinality({j \in 1..(i - 1) : header[j] = header[i]})

\* duplicate labels get ".k" appended, an empty label is named after its position
MangleLabels(header) ==
    [i \in 1..Len(header) |->
        IF header[i] = "" THEN "Unnamed: " \o ToString(i - 1)
        ELSE IF Earlier(header, i) = 0 THEN header[i]
        ELSE header[i] \o "." \o ToString(Earlier(header, i))]

PadTo(line, width) == [i \in 1..width |-> IF i <= Len(line) THEN line[i] ELSE ""]

DropFirst(s, k) == SubSeq(s, k + 1, Len(s))

Max(a, b) == IF a >= b THEN a ELSE b

\* read_csv(..., header=None): the first line is data, the labels are positions
read_csv_header_none(content) ==
    IF content.fmt # "csv" THEN
        Raise("UnicodeDecodeError", "'utf-8' codec can't decode byte")
    ELSE
    LET text == SelectSeq(content.lines, LAMBDA l : ~IsBlankLine(l))
    IN  IF text = <<>> THEN
            Raise("EmptyDataError", "No columns to parse from file")
        ELSE IF \E i \in 1..Len(text) : Len(text[i]) > Len(Head(text)) THEN
            Raise("ParserError", "Error tokenizing data. C error: Expected fields")
        ELSE
            Ok([cols |-> [i \in 1..Len(Head(text)) |-> ToString(i - 1)],
                rows |-> [i \in 1..Len(text) |-> PadTo(text[i], Len(Head(text)))]])

\* a field written as two double quotes: an empty field that does not make
\* its line a blank one
QuotedEmpty == "\"\""

\* the fields of the lines with their quotes taken off
Unquoted(lines) ==
    [i \in 1..Len(lines) |->
        [j \in 1..Len(lines[i]) |-> IF lines[i][j] = QuotedEmpty THEN "" ELSE lines[i][j]]]

read_csv(content) ==
    IF content.fmt # "csv" THEN
        Raise("UnicodeDecodeError", "'utf-8' codec can't decode byte")
    ELSE
    LET text == Unquoted(SelectSeq(content.lines, LAMBDA l : ~IsBlankLine(l)))   \* skip_blank_lines
    IN  IF text = <<>> THEN
            Raise("EmptyDataError", "No columns to parse from file")
        ELSE
        LET header == Head(text)
            data   == Tail(text)
            \* a first data line longer than the header makes the leading
            \* fields an implicit index
            width  == IF data = <<>> THEN Len(header)
                      ELSE Max(Len(header), Len(Head(data)))
            lead   == width - Len(header)
        IN  IF \E i \in 1..Len(data) : Len(data[i]) > width THEN
                Raise("ParserError", "Error tokenizing data. C error: Expected fields")
            ELSE
                Ok([cols |-> MangleLabels(header),
                    rows |-> [i \in 1..Len(data) |->
                                 DropFirst(PadTo(data[i], width), lead)]])

(***************************************************************************)
(* pandas.read_json with default arguments, on an array of flat objects    *)
(***************************************************************************)
Keys(obj) == [i \in 1..Len(obj) |-> obj[i][1]]

RECURSIVE AppendNew(_, _)
\* the labels of s followed by those of t that s does not hold, in t's order
AppendNew(s, t) ==
    IF t = <<>> THEN s
    ELSE AppendNew(IF Head(t) \in Range(s) THEN s ELSE Append(s, Head(t)), Tail(t))

RECURSIVE UnionKeys(_)
\* keys in order of first appearance over the records
UnionKeys(records) ==
    IF records = <<>> THEN <<>>
    ELSE AppendNew(UnionKeys(SubSeq(records, 1, Len(records) - 1)),
                   Keys(records[Len(records)]))

Member(obj, key) ==
    IF \E i \in 1..Len(obj) : obj[i][1] = key
    THEN obj[CHOOSE i \in 1..Len(obj) : obj[i][1] = key][2]
    ELSE ""

read_json(content) ==
    IF content.fmt = "binary" THEN
        Raise("UnicodeDecodeError", "'utf-8' codec can't decode byte")
    ELSE IF content.fmt # "json" \/ ~content.wellformed THEN
        Raise("ValueError", "Expected object or value")
    ELSE
        LET cols == UnionKeys(content.records)
        IN  Ok([cols |-> cols,
                rows |-> [i \in 1..Len(content.records) |->
                             [j \in 1..Len(cols) |-> Member(content.records[i], cols[j])]]])

(***************************************************************************)
(* load_uploaded_data                                                      *)
(***************************************************************************)
NotCalled == [called |-> FALSE]

\* what the call leaves behind: the value returned, the st.error messages,
\* the decoders invoked and the exception that left the function, if any
LoadOutcome(ret, errors, decoders, raised) ==
    [called |-> TRUE, ret |-> ret, st_error |-> errors,
     decoders |-> decoders, raised |-> raised]

\* a dispatch that forgets the dot of the extension
LoadTryAnyCsv(file) ==
    IF EndsWith(file.name, "csv") THEN [decoders |-> {"read_csv"}, res |-> read_csv(file.content)]
    ELSE IF EndsWith(file.name, ".json") THEN [decoders |-> {"read_json"}, res |-> read_json(file.content)]
    ELSE [decoders |-> {}, res |-> None]

\* the try body, lines 30-40
LoadTry(file) ==
    IF EndsWith(file.name, ".csv") THEN [decoders |-> {"read_csv"}, res |-> read_csv(file.content)]
    ELSE IF EndsWith(file.name, ".json") THEN [decoders |-> {"read_json"}, res |-> read_json(file.content)]
    ELSE [decoders |-> {}, res |-> None]

\* the call without its except clause
load_uploaded_data_no_except(file) ==
    LET t == LoadTry(file)
    IN  IF t.res = None THEN
            LoadOutcome(None, <<"Unsupported file format: " \o file.name>>, t.decoders, None)
        ELSE IF t.res.ok THEN
            LoadOutcome(t.res.df, <<>>, t.decoders, None)
        ELSE
            LoadOutcome(None, <<>>, t.decoders, t.res.exc)

load_uploaded_data(file) ==
    LET t == LoadTry(file)
    IN  IF t.res = None THEN
            LoadOutcome(None, <<"Unsupported file format: " \o file.name>>, t.decoders, None)
        ELSE IF t.res.ok THEN
            LoadOutcome(t.res.df, <<>>, t.decoders, None)
        ELSE
            \* except Exception as e: st.error(...); return None
            LoadOutcome(None, <<"Error loading file: " \o t.res.exc.msg>>, t.decoders, None)

(***************************************************************************)
(* Actions of the loader                                                   *)
(***************************************************************************)
InitLoad ==
    /\ uploaded_file = NoFile
    /\ load_result = NotCalled
    /\ sample_data = None
    /\ widget_state = <<>>
    /\ filtered_df = None
    /\ chart_call = None
    /\ chart_outcome = None
    /\ data_source = "Upload Your Data"
    /\ rendered = None
    /\ NothingAnalysed
    /\ NoSampleLoaded
    /\ NoSessions

\* the user puts a file into the sidebar's uploader
UploadFile ==
    /\ \E f \in Uploads : uploaded_file' = f
    /\ load_result' = NotCalled
    /\ UNCHANGED <<filterVars, chartVars, pageVars, analysisVars, sampleVars, sessionVars>>

\* a page calls load_uploaded_data on the uploaded file
LoadUploadedData ==
    /\ uploaded_file # NoFile
    /\ ~load_result.called
    /\ load_result' = load_uploaded_data(uploaded_file)
    /\ UNCHANGED <<uploaded_file, filterVars, chartVars, pageVars, analysisVars, sampleVars, sessionVars>>

NextLoad == UploadFile \/ LoadUploadedData

SpecLoad == InitLoad /\ [][NextLoad]_vars

(***************************************************************************)
(* Claims about the loader                                                 *)
(***************************************************************************)
CsvNames == {"d.csv", ".csv", "d.json.csv"}
JsonNames == {"d.json", "d.csv.json"}

\* C1: load_uploaded_data dispatches on the extension of the file name: a
\* name ending in .csv invokes the CSV decoder only, a name ending in .json
\* the JSON decoder only, and any other name invokes no decoder, shows the
\* unsupported-format error and returns None.
C1_DispatchOnExtension ==
    load_result.called =>
        IF uploaded_file.name \in CsvNames THEN load_result.decoders = {"read_csv"}
        ELSE IF uploaded_file.name \in JsonNames THEN load_result.decoders = {"read_json"}
        ELSE /\ load_result.decoders = {}
             /\ load_result.ret = None
             /\ load_result.raised = None
             /\ load_result.st_error = <<"Unsupported file format: " \o uploaded_file.name>>

C1_Witness ==
    /\ load_result.called
    /\ uploaded_file.name = "csv"
    /\ load_result.decoders = {}
    /\ load_result.ret = None

\* the decoder's outcome on the uploaded bytes, for the decoder that was invoked
DecoderOutcome ==
    IF load_result.decoders = {"read_csv"} THEN read_csv(uploaded_file.content)
    ELSE read_json(uploaded_file.content)

DecoderFailed ==
    /\ load_result.called
    /\ load_result.decoders # {}
    /\ ~DecoderOutcome.ok

\* C2: loading is all-or-nothing: whenever the decoder fails,
\* load_uploaded_data shows the error with the decoder's message, returns
\* None (no dataset, not even a partial one) and lets no exception escape.
C2_AllOrNothing ==
    DecoderFailed =>
        /\ load_result.ret = None
        /\ load_result.raised = None
        /\ load_result.st_error = <<"Error loading file: " \o DecoderOutcome.exc.msg>>

C2_Witness ==
    /\ DecoderFailed
    /\ DecoderOutcome.exc.type = "ParserError"
    /\ load_result.ret = None
    /\ Len(load_result.st_error) = 1

NoDuplicates(s) == \A i, j \in 1..Len(s) : s[i] = s[j] => i = j

\* a CSV text with a header line of distinct, non-empty labels whose other
\* lines are blank or hold one field per label
ValidCsv(c) ==
    /\ c.fmt = "csv"
    /\ c.lines # <<>>
    /\ NoDuplicates(c.lines[1])
    /\ \A i \in 1..Len(c.lines[1]) : c.lines[1][i] # ""
    /\ \A i \in 2..Len(c.lines) :
          IsBlankLine(c.lines[i]) \/ Len(c.lines[i]) = Len(c.lines[1])

\* the data rows of a CSV text are its non-blank lines after the header
CsvDataRows(c) == Cardinality({i \in 2..Len(c.lines) : ~IsBlankLine(c.lines[i])})

\* a well-formed JSON array whose objects all hold the keys of the first one
ValidJson(c) ==
    /\ c.fmt = "json"
    /\ c.wellformed
    /\ \A i \in 1..Len(c.records) :
          /\ NoDuplicates(Keys(c.records[i]))
          /\ Range(Keys(c.records[i])) = Range(Keys(c.records[1]))

JsonDeclared(c) == IF c.records = <<>> THEN <<>> ELSE Keys(c.records[1])

NaN == -1
NaNText == "nan"

MaxUnique == 20        \* visualization.py:170, nunique() <= 20

FilterCols == <<"a", "b", "c">>
FilterDtypes == <<"number", "number", "object">>

CandidateRows ==
    { <<0, 0, "x">>, <<1, 0, NaNText>>, <<2, 1, "x">>, <<NaN, 1, "y">> }

\* the datasets of up to MaxRows different candidate rows, in every order
SmallDatasets ==
    {[cols |-> FilterCols, dtypes |-> FilterDtypes, rows |-> r] :
        r \in {q \in SeqsUpTo(CandidateRows, MaxRows) :
                  \A i, j \in 1..Len(q) : q[i] = q[j] => i = j}}

\* n rows whose text column holds n distinct values
WideDataset(n) ==
    [cols |-> FilterCols, dtypes |-> FilterDtypes,
     rows |-> [i \in 1..n |-> <<i % 2, 0, "v" \o ToString(i)>>]]

Datasets == SmallDatasets \cup {WideDataset(MaxUnique), WideDataset(MaxUnique + 1)}

ColIndex(df, col) == CHOOSE i \in 1..Len(df.cols) : df.cols[i] = col

\* df.select_dtypes(include=kinds).columns
select_dtypes(df, kinds) ==
    SelectSeq(df.cols, LAMBDA c : df.dtypes[ColIndex(df, c)] \in kinds)

\* the values of a column over the given rows
Values(df, rows, col) == {rows[i][ColIndex(df, col)] : i \in 1..Len(rows)}

\* Series.min() and Series.max() skip missing values and give NaN when nothing is left
ColMin(df, col) ==
    LET vs == Values(df, df.rows, col) \ {NaN}
    IN  IF vs = {} THEN NaN ELSE CHOOSE m \in vs : \A v \in vs : m <= v

ColMax(df, col) ==
    LET vs == Values(df, df.rows, col) \ {NaN}
    IN  IF vs = {} THEN NaN ELSE CHOOSE m \in vs : \A v \in vs : m >= v

\* float comparisons: every ordering with NaN is false, NaN != x is true
FloatNeq(x, y) == x = NaN \/ y = NaN \/ x # y
FloatGe(x, y) == x # NaN /\ y # NaN /\ x >= y
FloatLe(x, y) == x # NaN /\ y # NaN /\ x <= y

\* Series.nunique() does not count the missing value, Series.unique() lists it
NUnique(df, col) == Cardinality(Values(df, df.rows, col) \ {NaNText})
Unique(df, col) == Values(df, df.rows, col)

SliderKey(col) == "filter_" \o col
MultiselectKey(col) == "filter_cat_" \o col

\* a keyed widget returns the session's value for its key, else its default
WidgetValue(ws, key, default) == IF key \in DOMAIN ws THEN ws[key] ELSE default

\* line 153: the slider is offered when the column's values have a spread
SliderOffered(df, col) == FloatNeq(ColMin(df, col), ColMax(df, col))

\* line 170: the multiselect is offered for at most 20 distinct values
MultiselectOffered(df, col) == NUnique(df, col) <= MaxUnique

selected_range(df, ws, col) ==
    WidgetValue(ws, SliderKey(col), <<ColMin(df, col), ColMax(df, col)>>)

selected_values(df, ws, col) ==
    WidgetValue(ws, MultiselectKey(col), Unique(df, col))

\* lines 162-165: (filtered_df[col] >= lo) & (filtered_df[col] <= hi)
InRange(v, range) == FloatGe(v, range[1]) /\ FloatLe(v, range[2])

\* lines 162-165 with the mask applied to df instead of filtered_df
NumericStepFromSource(df, rows, ws, col) ==
    LET i == ColIndex(df, col)
        range == selected_range(df, ws, col)
    IN  IF SliderOffered(df, col)
        THEN SelectSeq(df.rows, LAMBDA r : InRange(r[i], range))
        ELSE rows

\* lines 151-165: one pass of the loop over the numeric columns
NumericStep(df, rows, ws, col) ==
    LET i == ColIndex(df, col)
        range == selected_range(df, ws, col)
    IN  IF SliderOffered(df, col)
        THEN SelectSeq(rows, LAMBDA r : InRange(r[i], range))
        ELSE rows

RECURSIVE NumericLoop(_, _, _, _)
\* lines 150-165: for col in numeric_cols
NumericLoop(df, rows, ws, cols) ==
    IF cols = <<>> THEN rows
    ELSE NumericLoop(df, NumericStep(df, rows, ws, Head(cols)), ws, Tail(cols))

\* lines 178-179 without the test of the selection being non-empty
CategoricalStepNoGuard(df, rows, ws, col) ==
    LET i == ColIndex(df, col)
        allowed == selected_values(df, ws, col)
    IN  IF MultiselectOffered(df, col)
        THEN SelectSeq(rows, LAMBDA r : r[i] \in allowed)
        ELSE rows

\* lines 170-179: one pass of the loop over the text columns
CategoricalStep(df, rows, ws, col) ==
    LET i == ColIndex(df, col)
        allowed == selected_values(df, ws, col)
    IN  IF MultiselectOffered(df, col) /\ allowed # {}
        THEN SelectSeq(rows, LAMBDA r : r[i] \in allowed)
        ELSE rows

RECURSIVE CategoricalLoop(_, _, _, _)
\* lines 169-179: for col in categorical_cols
CategoricalLoop(df, rows, ws, cols) ==
    IF cols = <<>> THEN rows
    ELSE CategoricalLoop(df, CategoricalStep(df, rows, ws, Head(cols)), ws, Tail(cols))

\* the keys of the widgets one run renders, with their defaults
RenderedDefaults(df) ==
    LET num == {c \in Range(select_dtypes(df, {"number"})) : SliderOffered(df, c)}
        cat == {c \in Range(select_dtypes(df, {"object", "category"})) : MultiselectOffered(df, c)}
        keys == {SliderKey(c) : c \in num} \cup {MultiselectKey(c) : c \in cat}
    IN  [k \in keys |->
            IF \E c \in num : k = SliderKey(c)
            THEN LET c == CHOOSE c \in num : k = SliderKey(c)
                 IN  <<ColMin(df, c), ColMax(df, c)>>
            ELSE LET c == CHOOSE c \in cat : k = MultiselectKey(c)
                 IN  Unique(df, c)]

\* the rows render_data_filtering keeps, the columns taken in the given orders
FilterRows(df, ws, numeric_cols, categorical_cols) ==
    CategoricalLoop(df, NumericLoop(df, df.rows, ws, numeric_cols), ws, categorical_cols)

\* a filter working on df itself (no df.copy(), rows dropped in place)
render_data_filtering_inplace(df, ws) ==
    LET rows == FilterRows(df, ws, select_dtypes(df, {"number"}),
                           select_dtypes(df, {"object", "category"}))
    IN  [df |-> [df EXCEPT !.rows = rows],
         filtered_df |-> [df EXCEPT !.rows = rows],
         session |-> ws @@ RenderedDefaults(df)]

\* lines 130-187: the caller's df afterwards, the dataset returned and the
\* session's widget entries afterwards
render_data_filtering(df, ws) ==
    LET rows == FilterRows(df, ws, select_dtypes(df, {"number"}),
                           select_dtypes(df, {"object", "category"}))
    IN  [df |-> df,
         filtered_df |-> [df EXCEPT !.rows = rows],
         session |-> ws @@ RenderedDefaults(df)]

(***************************************************************************)
(* Actions of the filter: every user interaction reruns the script, which  *)
(* calls render_data_filtering on the session's dataset.                   *)
(***************************************************************************)
InitFilter ==
    /\ uploaded_file = NoFile
    /\ load_result = NotCalled
    /\ sample_data \in Datasets
    /\ widget_state = <<>>
    /\ filtered_df = None
    /\ chart_call = None
    /\ chart_outcome = None
    /\ data_source = "Use Sample Data"
    /\ rendered = None
    /\ NothingAnalysed
    /\ NoSampleLoaded
    /\ NoSessions

Rerun(ws) ==
    LET out == render_data_filtering(sample_data, ws)
    IN  /\ sample_data' = out.df
        /\ filtered_df' = out.filtered_df
        /\ widget_state' = out.session
        /\ UNCHANGED <<loadVars, chartVars, pageVars, analysisVars, sampleVars, sessionVars>>

\* the page is rendered without any interaction with a filter widget
RenderDataFiltering == Rerun(widget_state)

\* the positions a slider over [lo, hi] can be put at
SliderRanges(lo, hi) == {r \in (lo..hi) \X (lo..hi) : r[1] <= r[2]}

\* the user moves a slider that the last run rendered
MoveSlider ==
    \E col \in Range(select_dtypes(sample_data, {"number"})) :
        /\ SliderKey(col) \in DOMAIN widget_state
        /\ ColMin(sample_data, col) # NaN
        /\ \E r \in SliderRanges(ColMin(sample_data, col), ColMax(sample_data, col)) :
              Rerun([widget_state EXCEPT ![SliderKey(col)] = r])

\* the selections a user makes among the options of a multiselect: none,
\* all, one value alone, all but one value
Picks(options) ==
    {{}, options} \cup {{x} : x \in options} \cup {options \ {x} : x \in options}

\* the user changes a multiselect that the last run rendered
PickValues ==
    \E col \in Range(select_dtypes(sample_data, {"object", "category"})) :
        /\ MultiselectKey(col) \in DOMAIN widget_state
        /\ \E S \in Picks(Unique(sample_data, col)) :
              Rerun([widget_state EXCEPT ![MultiselectKey(col)] = S])

NextFilter == RenderDataFiltering \/ MoveSlider \/ PickValues

SpecFilter == InitFilter /\ [][NextFilter]_vars

(***************************************************************************)
(* Claims about the filter                                                 *)
(***************************************************************************)
Reverse(s) == [i \in 1..Len(s) |-> s[Len(s) + 1 - i]]

Filtered == filtered_df # None

NumericCols == {sample_data.cols[i] : i \in {j \in 1..Len(sample_data.cols) : sample_data.dtypes[j] = "number"}}
TextCols == {sample_data.cols[i] : i \in {j \in 1..Len(sample_data.cols) : sample_data.dtypes[j] # "number"}}

Cell(r, col) == r[ColIndex(sample_data, col)]

\* the values of a column of the source that are not missing
Present(col) ==
    {Cell(sample_data.rows[i], col) : i \in 1..Len(sample_data.rows)}
        \ (IF col \in NumericCols THEN {NaN} ELSE {NaNText})

\* the column's minimum differs from its maximum (true of NaN against NaN)
HasSpread(col) == Cardinality(Present(col)) # 1

\* the row satisfies the range chosen for a numeric column
WithinChosenRange(r, col) ==
    LET lo == widget_state[SliderKey(col)][1]
        hi == widget_state[SliderKey(col)][2]
    IN  Cell(r, col) # NaN /\ lo # NaN /\ hi # NaN /\ lo <= Cell(r, col) /\ Cell(r, col) <= hi

NumericPredicates(r) == \A c \in NumericCols : HasSpread(c) => WithinChosenRange(r, c)

\* the row satisfies the membership predicate of a text column, if it has one
ChosenValuesAllow(r, col) ==
    (Cardinality(Present(col)) <= MaxUnique /\ widget_state[MultiselectKey(col)] # {})
        => Cell(r, col) \in widget_state[MultiselectKey(col)]

TextPredicates(r) == \A c \in TextCols : ChosenValuesAllow(r, c)

C5_CategoricalMembership ==
    Filtered =>
        /\ filtered_df.rows =
              SelectSeq(NumericLoop(sample_data, sample_data.rows, widget_state,
                                    select_dtypes(sample_data, {"number"})),
                        LAMBDA r : \A c \in TextCols :
                            IF Cardinality(Present(c)) > MaxUnique THEN TRUE
                            ELSE IF widget_state[MultiselectKey(c)] = {} THEN TRUE
                            ELSE Cell(r, c) \in widget_state[MultiselectKey(c)])
        /\ \A c \in NumericCols : MultiselectKey(c) \notin DOMAIN widget_state
        /\ \A c \in TextCols :
              Cardinality(Present(c)) > MaxUnique => MultiselectKey(c) \notin DOMAIN widget_state

\* an empty selection keeps every row
C5_Witness ==
    /\ Filtered
    /\ Len(sample_data.rows) = 2
    /\ Cardinality(Present("c")) = 2
    /\ widget_state[MultiselectKey("c")] = {}
    /\ filtered_df.rows = sample_data.rows

\* C6: filtering never mutates its source: whatever the filter selection,
\* the dataset held in the session is the same after a run of
\* render_data_filtering as before it.
C6_SourceNotMutated == [][sample_data' = sample_data]_vars

\* a run has dropped rows from the result while the source still has them
C6_Witness ==
    /\ Filtered
    /\ Len(sample_data.rows) = 3
    /\ Len(filtered_df.rows) = 1

\* every predicate other than the range of col keeps every row of the source
OnlyRangeRestricts(col) ==
    \A i \in 1..Len(sample_data.rows) :
        /\ TextPredicates(sample_data.rows[i])
        /\ \A c \in NumericCols \ {col} : HasSpread(c) => WithinChosenRange(sample_data.rows[i], c)

Excluded(col) ==
    {i \in 1..Len(sample_data.rows) : ~WithinChosenRange(sample_data.rows[i], col)}

\* C7: the filter is idempotent: applying the same selections to the
\* filtered dataset returns the filtered dataset again; and a numeric range
\* that excludes k of the n rows returns exactly n - k rows.
C7_Idempotent ==
    Filtered =>
        /\ render_data_filtering(filtered_df, widget_state).filtered_df = filtered_df
        /\ \A c \in NumericCols :
              (HasSpread(c) /\ OnlyRangeRestricts(c)) =>
                  Len(filtered_df.rows) = Len(sample_data.rows) - Cardinality(Excluded(c))

\* a range excluding 2 of 3 rows leaves 1 row, and filtering again leaves it
C7_Witness ==
    /\ Filtered
    /\ Len(sample_data.rows) = 3
    /\ HasSpread("a") /\ OnlyRangeRestricts("a")
    /\ Cardinality(Excluded("a")) = 2
    /\ Len(filtered_df.rows) = 1
    /\ render_data_filtering(filtered_df, widget_state).filtered_df = filtered_df

(***************************************************************************)
(* Chart construction, components/charts.py.  plotly is modelled for what  *)
(* a create_* function observes of it: px.bar / px.line / px.scatter       *)
(* return a figure or raise, and so do update_layout and update_traces.    *)
(* An optional column argument (str | None) is a sequence of at most one   *)
(* label.  fault names the library call that raises for a reason the       *)
(* model does not spell out ("none": no such failure).                     *)
(***************************************************************************)
NoColumn == <<>>

Returned(fig) == [ok |-> TRUE, fig |-> fig]

LibraryFailure == [type |-> "Exception", msg |-> "library failure"]

RECURSIVE JoinQuoted(_)
JoinQuoted(cols) ==
    IF cols = <<>> THEN ""
    ELSE IF Len(cols) = 1 THEN "'" \o cols[1] \o "'"
    ELSE "'" \o Head(cols) \o "', " \o JoinQuoted(Tail(cols))

\* Python str(list(df.columns))
FormatList(cols) == "[" \o JoinQuoted(cols) \o "]"

\* the message plotly express raises for a column argument that names no column
NotAColumn(field, cols, name) ==
    "Value of '" \o field \o "' is not the name of a column in 'data_frame'. Expected one of "
        \o FormatList(cols) \o " but received: " \o name
        \o (IF name = "index"
            THEN "\n To use the index, pass it in directly as df.index." ELSE "")

\* the column arguments in the order plotly express looks at them
ColumnArgs(x_col, y_col, size_col, color_col) ==
    << [field |-> "x", col |-> <<x_col>>], [field |-> "y", col |-> <<y_col>>],
       [field |-> "size", col |-> size_col], [field |-> "color", col |-> color_col] >>

\* a check that looks at the x argument only
build_dataframe_x_only(data, args) ==
    IF args[1].col[1] \notin Range(data.cols)
    THEN Raise("ValueError", NotAColumn("x", data.cols, args[1].col[1]))
    ELSE Ok(data)

\* every column argument that is given must name a column of the data
build_dataframe(data, args) ==
    LET given == SelectSeq(args, LAMBDA a : a.col # NoColumn)
        bad == {i \in 1..Len(given) : given[i].col[1] \notin Range(data.cols)}
    IN  IF bad = {} THEN Ok(data)
        ELSE LET first == CHOOSE i \in bad : \A j \in bad : i <= j
             IN  Raise("ValueError",
                       NotAColumn(given[first].field, data.cols, given[first].col[1]))

\* marker sizes must be numbers, none of them missing
ValidSizes(data, size_col) ==
    \/ size_col = NoColumn
    \/ /\ data.dtypes[ColIndex(data, size_col[1])] = "number"
       /\ NaN \notin Values(data, data.rows, size_col[1])

\* the values of one column, in row order; none for a name that is no column
ColumnValues(data, rows, col) ==
    IF col \in Range(data.cols)
    THEN [i \in 1..Len(rows) |-> rows[i][ColIndex(data, col)]]
    ELSE <<>>

RowsWhere(data, col, v) ==
    SelectSeq(data.rows, LAMBDA r : r[ColIndex(data, col)] = v)

\* the traces of a figure without row filtering: rows that hold a missing
\* x or y are dropped before plotting
TracesWithoutMissing(data, x_col, y_col, color_col) ==
    LET kept == SelectSeq(data.rows, LAMBDA r : r[ColIndex(data, x_col)] # NaN
                                                /\ r[ColIndex(data, y_col)] # NaN)
    IN  << [name |-> "", x |-> ColumnValues(data, kept, x_col),
            y |-> ColumnValues(data, kept, y_col)] >>

\* the traces px draws: one for all rows when no color column is given,
\* else one per value of the color column, in order of first appearance
Traces(data, x_col, y_col, color_col) ==
    IF color_col = NoColumn
    THEN << [name |-> "", x |-> ColumnValues(data, data.rows, x_col),
             y |-> ColumnValues(data, data.rows, y_col)] >>
    ELSE LET groups == AppendNew(<<>>, ColumnValues(data, data.rows, color_col[1]))
         IN  [g \in 1..Len(groups) |->
                 [name |-> groups[g],
                  x |-> ColumnValues(data, RowsWhere(data, color_col[1], groups[g]), x_col),
                  y |-> ColumnValues(data, RowsWhere(data, color_col[1], groups[g]), y_col)]]

\* px.bar, px.line and px.scatter
make_figure(kind, data, x_col, y_col, color_col, size_col, title, height, fault) ==
    LET checked == build_dataframe(data, ColumnArgs(x_col, y_col, size_col, color_col))
    IN  IF ~checked.ok THEN checked
        ELSE IF ~ValidSizes(data, size_col) THEN
            Raise("ValueError", "Invalid element(s) received for the 'size' property of scatter.marker")
        ELSE IF fault = "plot" THEN [ok |-> FALSE, exc |-> LibraryFailure]
        ELSE Returned([kind |-> kind, x |-> x_col, y |-> y_col, color |-> color_col,
                       size |-> size_col, points |-> Len(data.rows),
                       data |-> Traces(data, x_col, y_col, color_col),
                       layout |-> [title |-> title, height |-> height,
                                   xaxis_title |-> x_col, yaxis_title |-> y_col],
                       traces |-> "default"])

Lowercase == "abcdefghijklmnopqrstuvwxyz"
Uppercase == "ABCDEFGHIJKLMNOPQRSTUVWXYZ"

\* the position of a character in an alphabet, 0 when it is not in it
Position(ch, alphabet) ==
    IF \E i \in 1..Len(alphabet) : SubSeq(alphabet, i, i) = ch
    THEN CHOOSE i \in 1..Len(alphabet) : SubSeq(alphabet, i, i) = ch
    ELSE 0

\* str.replace for one-character patterns
RECURSIVE str_replace(_, _, _)
str_replace(s, old, new) ==
    IF s = "" THEN ""
    ELSE (IF SubSeq(s, 1, 1) = old THEN new ELSE SubSeq(s, 1, 1))
         \o str_replace(SubSeq(s, 2, Len(s)), old, new)

\* one character of str.title: a letter that follows a letter is lowered,
\* any other letter is raised, and other characters are kept
TitleChar(ch, lower, upper, after_letter) ==
    IF lower > 0 /\ ~after_letter THEN SubSeq(Uppercase, lower, lower)
    ELSE IF upper > 0 /\ after_letter THEN SubSeq(Lowercase, upper, upper)
    ELSE ch

RECURSIVE TitleFrom(_, _, _)
TitleFrom(s, i, after_letter) ==
    IF i > Len(s) THEN ""
    ELSE TitleChar(SubSeq(s, i, i), Position(SubSeq(s, i, i), Lowercase),
                   Position(SubSeq(s, i, i), Uppercase), after_letter)
         \o TitleFrom(s, i + 1, Position(SubSeq(s, i, i), Lowercase) > 0
                                \/ Position(SubSeq(s, i, i), Uppercase) > 0)

\* str.title
str_title(s) == TitleFrom(s, 1, FALSE)

\* the axis title as the column is named, without the underscore replacement
AxisTitleKeepingUnderscores(col) == str_title(col)

\* col.replace("_", " ").title()
AxisTitle(col) == str_title(str_replace(col, "_", " "))

update_layout(fig, x_col, y_col, color_col, fault) ==
    IF fault = "layout" THEN [ok |-> FALSE, exc |-> LibraryFailure]
    ELSE Returned([fig EXCEPT !.layout =
                      [title |-> fig.layout.title, height |-> fig.layout.height,
                       xaxis_title |-> AxisTitle(x_col),
                       yaxis_title |-> AxisTitle(y_col),
                       showlegend |-> color_col # NoColumn]])

update_traces(fig, style, fault) ==
    IF fault = "traces" THEN [ok |-> FALSE, exc |-> LibraryFailure]
    ELSE Returned([fig EXCEPT !.traces = style])

\* except Exception as e: raise ValueError(f"Failed to create <kind>: {e}") from e
Wrapped(kind, e) ==
    [ok |-> FALSE,
     exc |-> [type |-> "ValueError", msg |-> "Failed to create " \o kind \o ": " \o e.msg,
              cause |-> e]]

create_bar_chart(data, x_col, y_col, title, color_col, height, fault) ==
    LET plotted == make_figure("bar", data, x_col, y_col, color_col, NoColumn, title, height, fault)
    IN  IF ~plotted.ok THEN Wrapped("bar chart", plotted.exc)
        ELSE LET laid == update_layout(plotted.fig, x_col, y_col, color_col, fault)
             IN  IF ~laid.ok THEN Wrapped("bar chart", laid.exc)
                 ELSE Returned(laid.fig)

\* create_line_chart with the update_traces call after the try block
create_line_chart_traces_unguarded(data, x_col, y_col, title, color_col, height, fault) ==
    LET plotted == make_figure("line", data, x_col, y_col, color_col, NoColumn, title, height, fault)
    IN  IF ~plotted.ok THEN Wrapped("line chart", plotted.exc)
        ELSE LET laid == update_layout(plotted.fig, x_col, y_col, color_col, fault)
             IN  IF ~laid.ok THEN Wrapped("line chart", laid.exc)
                 ELSE update_traces(laid.fig, "lines+markers", fault)

create_line_chart(data, x_col, y_col, title, color_col, height, fault) ==
    LET plotted == make_figure("line", data, x_col, y_col, color_col, NoColumn, title, height, fault)
    IN  IF ~plotted.ok THEN Wrapped("line chart", plotted.exc)
        ELSE LET laid == update_layout(plotted.fig, x_col, y_col, color_col, fault)
             IN  IF ~laid.ok THEN Wrapped("line chart", laid.exc)
                 ELSE LET styled == update_traces(laid.fig, "lines+markers", fault)
                      IN  IF ~styled.ok THEN Wrapped("line chart", styled.exc)
                          ELSE Returned(styled.fig)

create_scatter_plot(data, x_col, y_col, title, color_col, size_col, height, fault) ==
    LET plotted == make_figure("scatter", data, x_col, y_col, color_col, size_col, title, height, fault)
    IN  IF ~plotted.ok THEN Wrapped("scatter plot", plotted.exc)
        ELSE LET laid == update_layout(plotted.fig, x_col, y_col, color_col, fault)
             IN  IF ~laid.ok THEN Wrapped("scatter plot", laid.exc)
                 ELSE LET styled == update_traces(laid.fig, "opacity 0.7", fault)
                      IN  IF ~styled.ok THEN Wrapped("scatter plot", styled.exc)
                          ELSE Returned(styled.fig)

(***************************************************************************)
(* Calls of the chart functions.  The arguments of one call are drawn in   *)
(* the initial state; the call itself is the step.                         *)
(***************************************************************************)
EmptyFrame == [cols |-> <<>>, dtypes |-> <<>>, rows |-> <<>>]     \* pd.DataFrame()

ChartDatasets ==
    { EmptyFrame,
      [cols |-> FilterCols, dtypes |-> FilterDtypes, rows |-> <<>>],
      [cols |-> FilterCols, dtypes |-> FilterDtypes,
       rows |-> << <<0, 0, "x">>, <<NaN, 1, "y">> >>],
      [cols |-> <<"customer_count", "unit_Price2x">>, dtypes |-> <<"number", "number">>,
       rows |-> << <<1, 0>>, <<0, 1>>, <<1, 1>> >>] }

ColumnNames == {"a", "b", "nonexistent", "index", "customer_count", "unit_Price2x"}

\* the title and height of a call: the defaults of the signature, or others
DefaultTitle(fn) ==
    IF fn = "create_bar_chart" THEN "Bar Chart"
    ELSE IF fn = "create_line_chart" THEN "Line Chart"
    ELSE "Scatter Plot"

DefaultHeight == 400

ChartStyles(fn) ==
    {[title |-> DefaultTitle(fn), height |-> DefaultHeight],
     [title |-> "Custom Title", height |-> 600]}

ColorColumns == {NoColumn, <<"c">>, <<"nonexistent">>}

SizeColumns == {NoColumn, <<"a">>, <<"b">>, <<"c">>}

Faults == {"none", "plot", "layout", "traces"}

ChartFunctions == {"create_bar_chart", "create_line_chart", "create_scatter_plot"}

\* the calls of one chart function; only create_scatter_plot takes a size column
ChartCalls(fn) ==
    {[fn |-> fn, data |-> d, x_col |-> x, y_col |-> y, color_col |-> c,
      size_col |-> z, title |-> s.title, height |-> s.height, fault |-> e] :
        d \in ChartDatasets, x \in ColumnNames, y \in ColumnNames,
        c \in ColorColumns,
        z \in (IF fn = "create_scatter_plot" THEN SizeColumns ELSE {NoColumn}),
        e \in Faults, s \in ChartStyles(fn)}

InitChart ==
    /\ uploaded_file = NoFile
    /\ load_result = NotCalled
    /\ sample_data = None
    /\ widget_state = <<>>
    /\ filtered_df = None
    /\ \E fn \in ChartFunctions : chart_call \in ChartCalls(fn)
    /\ chart_outcome = None
    /\ data_source = "Upload Your Data"
    /\ rendered = None
    /\ NothingAnalysed
    /\ NoSampleLoaded
    /\ NoSessions

CreateBarChart ==
    /\ chart_outcome = None
    /\ chart_call.fn = "create_bar_chart"
    /\ chart_outcome' = create_bar_chart(chart_call.data, chart_call.x_col, chart_call.y_col,
                                         chart_call.title, chart_call.color_col,
                                         chart_call.height, chart_call.fault)
    /\ UNCHANGED <<loadVars, filterVars, chart_call, pageVars, analysisVars, sampleVars, sessionVars>>

CreateLineChart ==
    /\ chart_outcome = None
    /\ chart_call.fn = "create_line_chart"
    /\ chart_outcome' = create_line_chart(chart_call.data, chart_call.x_col, chart_call.y_col,
                                          chart_call.title, chart_call.color_col,
                                          chart_call.height, chart_call.fault)
    /\ UNCHANGED <<loadVars, filterVars, chart_call, pageVars, analysisVars, sampleVars, sessionVars>>

CreateScatterPlot ==
    /\ chart_outcome = None
    /\ chart_call.fn = "create_scatter_plot"
    /\ chart_outcome' = create_scatter_plot(chart_call.data, chart_call.x_col, chart_call.y_col,
                                            chart_call.title, chart_call.color_col,
                                            chart_call.size_col, chart_call.height,
                                            chart_call.fault)
    /\ UNCHANGED <<loadVars, filterVars, chart_call, pageVars, analysisVars, sampleVars, sessionVars>>

NextChart == CreateBarChart \/ CreateLineChart \/ CreateScatterPlot

SpecChart == InitChart /\ [][NextChart]_vars

(***************************************************************************)
(* Claims about chart construction                                         *)
(***************************************************************************)
Contains(s, sub) ==
    \E i \in 1..(Len(s) - Len(sub) + 1) : SubSeq(s, i, i + Len(sub) - 1) = sub

ChartCalled == chart_outcome # None

AbsentX == chart_call.x_col \notin Range(chart_call.data.cols)
AbsentY == chart_call.y_col \notin Range(chart_call.data.cols)

\* the chart kind as the error message of the called function words it
KindText ==
    IF chart_call.fn = "create_bar_chart" THEN "bar chart"
    ELSE IF chart_call.fn = "create_line_chart" THEN "line chart"
    ELSE "scatter plot"

\* C9: for each of create_bar_chart, create_line_chart and
\* create_scatter_plot, a call whose x_col or y_col is not a column of the
\* dataset (a dataset without columns included) fails with an error whose
\* message names the offending column value, and returns no chart object.
C9_AbsentColumnFails ==
    (ChartCalled /\ (AbsentX \/ AbsentY)) =>
        /\ ~chart_outcome.ok
        /\ "fig" \notin DOMAIN chart_outcome
        /\ Contains(chart_outcome.exc.msg,
                    "but received: " \o (IF AbsentX THEN chart_call.x_col ELSE chart_call.y_col))

\* x is a column and y is not: the error names y's value
C9_Witness ==
    /\ ChartCalled
    /\ chart_call.fn = "create_scatter_plot"
    /\ chart_call.x_col = "a"
    /\ chart_call.y_col = "nonexistent"
    /\ ~chart_outcome.ok
    /\ Contains(chart_outcome.exc.msg, "Value of 'y' is not the name of a column")
    /\ Contains(chart_outcome.exc.msg, "but received: nonexistent")

\* C10: every failure raised while the chart is built, by the plotting call
\* or by a later layout or trace update, reaches the caller as a ValueError
\* whose message is "Failed to create <chart kind>: <cause>" and which
\* carries the original error as its cause; no failure is swallowed, a call
\* in which a step of the construction fails never returns a chart.
C10_FailuresAreWrapped ==
    ChartCalled =>
        /\ ~chart_outcome.ok =>
              /\ chart_outcome.exc.type = "ValueError"
              /\ "cause" \in DOMAIN chart_outcome.exc
              /\ chart_outcome.exc.msg =
                    "Failed to create " \o KindText \o ": " \o chart_outcome.exc.cause.msg
        /\ chart_call.fault \in {"plot", "layout"} => ~chart_outcome.ok
        /\ (chart_call.fault = "traces" /\ chart_outcome.ok) =>
              chart_call.fn = "create_bar_chart"

\* a failure of update_traces, the last step, is wrapped too
C10_Witness ==
    /\ ChartCalled
    /\ chart_call.fn = "create_line_chart"
    /\ chart_call.fault = "traces"
    /\ ~chart_outcome.ok
    /\ chart_outcome.exc.cause = LibraryFailure
    /\ chart_outcome.exc.msg = "Failed to create line chart: library failure"

ChartReturned == ChartCalled /\ chart_outcome.ok

\* C12: for a dataset of n rows and no color column, each of
\* create_bar_chart, create_line_chart and create_scatter_plot returns a
\* chart whose first trace has exactly n x-values and exactly n y-values.
C12_FirstTraceHasAllRows ==
    (ChartReturned /\ chart_call.color_col = NoColumn) =>
        /\ Len(chart_outcome.fig.data) >= 1
        /\ Len(chart_outcome.fig.data[1].x) = Len(chart_call.data.rows)
        /\ Len(chart_outcome.fig.data[1].y) = Len(chart_call.data.rows)

\* a chart of two rows, one of them with a missing x value, no color column
C12_Witness ==
    /\ ChartReturned
    /\ chart_call.color_col = NoColumn
    /\ chart_call.x_col = "a"
    /\ Len(chart_call.data.rows) = 2
    /\ Len(chart_outcome.fig.data[1].x) = 2

\* the axis titles expected for the column names of the datasets charted
ExpectedAxisTitles ==
    ("a" :> "A") @@ ("b" :> "B") @@ ("c" :> "C")
        @@ ("customer_count" :> "Customer Count")
        @@ ("unit_Price2x" :> "Unit Price2X")

\* C13: in every chart returned, the x-axis and y-axis titles are the
\* column names with every underscore replaced by a space and the result
\* title-cased, and the chart title and height are exactly the values
\* passed in.
C13_TitlesAndHeight ==
    ChartReturned =>
        /\ chart_outcome.fig.layout.xaxis_title = ExpectedAxisTitles[chart_call.x_col]
        /\ chart_outcome.fig.layout.yaxis_title = ExpectedAxisTitles[chart_call.y_col]
        /\ chart_outcome.fig.layout.title = chart_call.title
        /\ chart_outcome.fig.layout.height = chart_call.height

\* a chart over columns whose names hold underscores, with its own title
C13_Witness ==
    /\ ChartReturned
    /\ chart_call.x_col = "customer_count"
    /\ chart_call.y_col = "unit_Price2x"
    /\ chart_call.title = "Custom Title"
    /\ chart_call.height = 600
    /\ chart_outcome.fig.layout.xaxis_title = "Customer Count"

(***************************************************************************)
(* The visualization page, pages/visualization.py.  One run of             *)
(* render_visualization_page is one step: it reads the widgets' values     *)
(* from the session and leaves behind the list of the calls it made.  The  *)
(* chart title, height and colour widgets are left at their defaults.      *)
(***************************************************************************)
DataSources == <<"Upload Your Data", "Use Sample Data">>

ChartTypes == <<"Bar Chart", "Line Chart", "Scatter Plot">>

\* a stand-in for the dataset load_sample_data generates
SampleFrame ==
    [cols |-> <<"sales", "category">>, dtypes |-> <<"number", "object">>,
     rows |-> << <<1, "A">>, <<2, "B">>, <<2, "A">> >>]

PageUploads ==
    { NoFile,
      [name |-> "d.txt", content |-> [fmt |-> "csv", lines |-> <<(<<"a">>), (<<"1">>)>>]],
      [name |-> "d.csv", content |-> Undecodable],
      [name |-> "d.csv", content |-> [fmt |-> "csv", lines |-> <<(<<"a", "b">>)>>]],
      [name |-> "d.csv", content |-> [fmt |-> "csv", lines |-> <<(<<"a", "b">>), (<<"1", "2">>), (<<"", "2">>)>>]] }

ToNumber(cell) ==
    CASE cell = "" -> NaN
      [] cell = "1" -> 1
      [] cell = "2" -> 2
      [] cell = "3" -> 3

\* the dtypes pandas gives a parsed file whose cells are digits or empty:
\* every column of a file without rows is object, every other one numeric
TypedFrame(df) ==
    [cols |-> df.cols,
     dtypes |-> [j \in 1..Len(df.cols) |-> IF df.rows = <<>> THEN "object" ELSE "number"],
     rows |-> [i \in 1..Len(df.rows) |->
                  [j \in 1..Len(df.cols) |-> ToNumber(df.rows[i][j])]]]

\* st.selectbox: the value in the session if it is still an option, else the
\* first option; None when there is no option at all
Choice(ws, key, options) ==
    IF options = <<>> THEN None
    ELSE IF key \in DOMAIN ws /\ ws[key] \in Range(options) THEN ws[key]
    ELSE options[1]

\* [None, *cols]
Optional(cols) == <<NoColumn>> \o [i \in 1..Len(cols) |-> <<cols[i]>>]

DefaultChartHeight == 500

render_chart_controls(df, ws) ==
    LET chart_type == Choice(ws, "Chart Type", ChartTypes)
        numeric_cols == select_dtypes(df, {"number"})
        all_cols == df.cols
    IN  [chart_type |-> chart_type,
         x_col |-> Choice(ws, "X-axis Column", all_cols),
         y_col |-> Choice(ws, "Y-axis Column",
                          IF numeric_cols # <<>> THEN numeric_cols ELSE all_cols),
         color_col |-> NoColumn,      \* the widget is left at its first option, None
         size_col |-> IF chart_type = "Scatter Plot"
                      THEN Choice(ws, "Size Column (Optional)", Optional(numeric_cols))
                      ELSE NoColumn,
         \* the title and height widgets are left at their defaults
         title |-> chart_type \o ": "
                   \o (IF all_cols = <<>> THEN "None"
                       ELSE Choice(ws, "Y-axis Column",
                                   IF numeric_cols # <<>> THEN numeric_cols ELSE all_cols))
                   \o " by "
                   \o (IF all_cols = <<>> THEN "None"
                       ELSE Choice(ws, "X-axis Column", all_cols)),
         height |-> DefaultChartHeight]

\* the session entries of the chart widgets rendered in a run
ChartWidgets(cfg) ==
    ("Chart Type" :> cfg.chart_type) @@ ("X-axis Column" :> cfg.x_col)
        @@ ("Y-axis Column" :> cfg.y_col)
        @@ (IF cfg.chart_type = "Scatter Plot"
            THEN ("Size Column (Optional)" :> cfg.size_col) ELSE <<>>)

NoExport == "none"

ExportFormats == {"png", "svg", "html"}

\* lines 286-360: the chart is displayed and offered for export, or the
\* error of its construction is shown
ChartRun(cfg, fn, filtered, outcome, export) ==
    [elements |->
        <<"render_chart_controls", fn>> \o
        (IF outcome.ok
         THEN <<"st.plotly_chart", "export buttons">> \o
              (IF export # NoExport
               THEN <<"export " \o export, "st.download_button">> ELSE <<>>)
         ELSE <<"st.error: Failed to create chart: " \o outcome.exc.msg>>),
     widgets |-> ChartWidgets(cfg),
     chart_call |-> [fn |-> fn, data |-> filtered, x_col |-> cfg.x_col,
                     y_col |-> cfg.y_col, color_col |-> cfg.color_col,
                     size_col |-> cfg.size_col, title |-> cfg.title,
                     height |-> cfg.height, fault |-> "none"],
     chart_outcome |-> outcome]

\* lines 244-360: chart controls, the chart, its display and export
ChartSection(filtered, ws, export) ==
    LET cfg == render_chart_controls(filtered, ws)
    IN  IF cfg.chart_type = "Bar Chart" THEN
            ChartRun(cfg, "create_bar_chart", filtered,
                     create_bar_chart(filtered, cfg.x_col, cfg.y_col, cfg.title, cfg.color_col,
                                      cfg.height, "none"),
                     export)
        ELSE IF cfg.chart_type = "Line Chart" THEN
            ChartRun(cfg, "create_line_chart", filtered,
                     create_line_chart(filtered, cfg.x_col, cfg.y_col, cfg.title, cfg.color_col,
                                       cfg.height, "none"),
                     export)
        ELSE
            ChartRun(cfg, "create_scatter_plot", filtered,
                     create_scatter_plot(filtered, cfg.x_col, cfg.y_col, cfg.title,
                                         cfg.color_col, cfg.size_col, cfg.height, "none"),
                     export)

NoDataError == "st.error: No data remains after filtering. Please adjust your filters."

\* what a run that went on to the chart leaves behind
WithChart(filtered, filter_widgets, notices, chart) ==
    [elements |-> <<"render_data_filtering">> \o notices \o chart.elements,
     returned |-> FALSE,
     filtered_df |-> filtered,
     widgets |-> filter_widgets @@ chart.widgets,
     chart_call |-> chart.chart_call, chart_outcome |-> chart.chart_outcome]

\* the filter widgets rendered for df, with their values after the run
FilterWidgets(df, session) == [k \in DOMAIN RenderedDefaults(df) |-> session[k]]

\* the page without the return after the error
FilterSectionNoReturn(df, ws, export) ==
    LET out == render_data_filtering(df, ws)
    IN  WithChart(out.filtered_df, FilterWidgets(df, out.session),
                  IF Len(out.filtered_df.rows) = 0 THEN <<NoDataError>> ELSE <<>>,
                  ChartSection(out.filtered_df, ws, export))

\* lines 234-360: the filter, the check of its result and the chart
FilterSection(df, ws, export) ==
    LET out == render_data_filtering(df, ws)
    IN  IF Len(out.filtered_df.rows) = 0 THEN
            [elements |-> <<"render_data_filtering", NoDataError>>,
             returned |-> TRUE,
             filtered_df |-> out.filtered_df,
             widgets |-> FilterWidgets(df, out.session),
             chart_call |-> None, chart_outcome |-> None]
        ELSE
            WithChart(out.filtered_df, FilterWidgets(df, out.session), <<>>,
                      ChartSection(out.filtered_df, ws, export))

\* what a run of the page leaves behind
PageRun(loaded, sample, head, body) ==
    [load_result |-> loaded,
     sample_data |-> sample,
     filtered_df |-> body.filtered_df,
     widget_state |-> body.widgets,
     chart_call |-> body.chart_call,
     chart_outcome |-> body.chart_outcome,
     rendered |-> [elements |-> head \o body.elements
                                \o (IF body.returned THEN <<>>
                                    ELSE <<"logger.debug: page rendered">>)]]

\* lines 212-231: the dataset of the run
PageData(upload, loaded, sample) ==
    IF upload
    THEN IF loaded.called /\ loaded.ret # None THEN TypedFrame(loaded.ret) ELSE None
    ELSE sample

\* lines 204-227: what the page shows before the dataset is looked at
PageHead(upload, file, loaded, load_clicked) ==
    <<"st.title", "st.radio">> \o
    (IF upload
     THEN IF file # NoFile
          THEN <<"load_uploaded_data">>
               \o [i \in 1..Len(loaded.st_error) |-> "st.error: " \o loaded.st_error[i]]
          ELSE <<"st.info: Please upload a file using the sidebar.">>
     ELSE <<"st.button">>
          \o (IF load_clicked THEN <<"load_sample_data", "st.success">> ELSE <<>>))

\* lines 233-379: the page for the dataset df, None included
PageBody(df, ws, export) ==
    IF df # None THEN FilterSection(df, ws, export)
    ELSE [elements |-> <<"st.info: Ready to create amazing visualizations!">>,
          returned |-> FALSE, filtered_df |-> None, widgets |-> <<>>,
          chart_call |-> None, chart_outcome |-> None]

PageWith(upload, file, loaded, sample, ws, load_clicked, export) ==
    PageRun(loaded, sample, PageHead(upload, file, loaded, load_clicked),
            PageBody(PageData(upload, loaded, sample), ws, export))

render_visualization_page(file, session_sample, ws, source, load_clicked, export) ==
    PageWith(source = "Upload Your Data", file,
             IF source = "Upload Your Data" /\ file # NoFile
             THEN load_uploaded_data(file) ELSE NotCalled,
             IF source # "Upload Your Data" /\ load_clicked
             THEN SampleFrame ELSE session_sample,
             ws, load_clicked, export)

(***************************************************************************)
(* Actions of the visualization page: every interaction with a widget      *)
(* reruns the page.  The sidebar's file is chosen in the initial state.    *)
(***************************************************************************)
InitPage ==
    /\ uploaded_file \in PageUploads
    /\ load_result = NotCalled
    /\ sample_data = None
    /\ widget_state = <<>>
    /\ filtered_df = None
    /\ chart_call = None
    /\ chart_outcome = None
    /\ data_source = DataSources[1]
    /\ rendered = None
    /\ NothingAnalysed
    /\ NoSampleLoaded
    /\ NoSessions

RunPage(source, ws, load_clicked, export) ==
    \E out \in {render_visualization_page(uploaded_file, sample_data, ws, source,
                                          load_clicked, export)} :
        /\ data_source' = source
        /\ load_result' = out.load_result
        /\ sample_data' = out.sample_data
        /\ filtered_df' = out.filtered_df
        /\ widget_state' = out.widget_state
        /\ chart_call' = out.chart_call
        /\ chart_outcome' = out.chart_outcome
        /\ rendered' = out.rendered
        /\ UNCHANGED <<uploaded_file, analysisVars, sampleVars, sessionVars>>

\* the dataset the page showed in its last run
CurrentData ==
    IF data_source = "Upload Your Data"
    THEN IF load_result.called /\ load_result.ret # None
         THEN TypedFrame(load_result.ret) ELSE None
    ELSE sample_data

OpenPage == RunPage(data_source, widget_state, FALSE, NoExport)

SelectDataSource ==
    /\ rendered # None
    /\ \E s \in Range(DataSources) : RunPage(s, widget_state, FALSE, NoExport)

ClickLoadSampleData ==
    /\ rendered # None
    /\ data_source = "Use Sample Data"
    /\ RunPage(data_source, widget_state, TRUE, NoExport)

PageMoveSlider ==
    /\ rendered # None
    /\ CurrentData # None
    /\ \E col \in Range(select_dtypes(CurrentData, {"number"})) :
          /\ SliderKey(col) \in DOMAIN widget_state
          /\ ColMin(CurrentData, col) # NaN
          /\ \E r \in SliderRanges(ColMin(CurrentData, col), ColMax(CurrentData, col)) :
                RunPage(data_source, [widget_state EXCEPT ![SliderKey(col)] = r],
                        FALSE, NoExport)

PagePickValues ==
    /\ rendered # None
    /\ CurrentData # None
    /\ \E col \in Range(select_dtypes(CurrentData, {"object", "category"})) :
          /\ MultiselectKey(col) \in DOMAIN widget_state
          /\ \E S \in Picks(Unique(CurrentData, col)) :
                RunPage(data_source, [widget_state EXCEPT ![MultiselectKey(col)] = S],
                        FALSE, NoExport)

\* the options of a chart widget, given the dataset the controls were rendered for
ChartOptions(df, key) ==
    CASE key = "Chart Type" -> Range(ChartTypes)
      [] key = "X-axis Column" -> Range(df.cols)
      [] key = "Y-axis Column" ->
            IF select_dtypes(df, {"number"}) # <<>>
            THEN Range(select_dtypes(df, {"number"})) ELSE Range(df.cols)
      [] key = "Size Column (Optional)" -> Range(Optional(select_dtypes(df, {"number"})))

ChartKeys ==
    {"Chart Type", "X-axis Column", "Y-axis Column", "Size Column (Optional)"}

ChooseChartOption ==
    /\ rendered # None
    /\ \E key \in ChartKeys \cap DOMAIN widget_state :
          \E v \in ChartOptions(filtered_df, key) :
              RunPage(data_source, [widget_state EXCEPT ![key] = v], FALSE, NoExport)

ClickExport ==
    /\ rendered # None
    /\ "export buttons" \in Range(rendered.elements)
    /\ \E fmt \in ExportFormats : RunPage(data_source, widget_state, FALSE, fmt)

NextPage ==
    \/ OpenPage
    \/ SelectDataSource
    \/ ClickLoadSampleData
    \/ PageMoveSlider
    \/ PagePickValues
    \/ ChooseChartOption
    \/ ClickExport

SpecPage == InitPage /\ [][NextPage]_vars

(***************************************************************************)
(* Claims about the visualization page                                     *)
(***************************************************************************)
\* the calls that belong to the chart: its controls, its construction,
\* its display and its export
ChartElements ==
    {"render_chart_controls", "create_bar_chart", "create_line_chart",
     "create_scatter_plot", "st.plotly_chart", "export buttons", "st.download_button"}
        \cup {"export " \o fmt : fmt \in ExportFormats}

EmptyFilterResult ==
    /\ rendered # None
    /\ filtered_df # None
    /\ Len(filtered_df.rows) = 0

\* C8: an empty filter result is terminal for the run: whenever the
\* filtered dataset of a run of the visualization page has zero rows, the
\* run shows the no-data error as the last thing it does and reaches
\* neither the chart controls, nor a chart-construction function, nor the
\* chart's display or export.
C8_EmptyResultIsTerminal ==
    EmptyFilterResult =>
        /\ rendered.elements[Len(rendered.elements)] = NoDataError
        /\ Range(rendered.elements) \cap ChartElements = {}
        /\ chart_call = None
        /\ chart_outcome = None

\* the filter widgets of the sample data were set so that no row is left
C8_Witness ==
    /\ EmptyFilterResult
    /\ data_source = "Use Sample Data"
    /\ Len(sample_data.rows) = 3
    /\ widget_state[MultiselectKey("category")] = {"B"}
    /\ NoDataError \in Range(rendered.elements)

(***************************************************************************)
(* Calls of render_chart_controls.  The dataset and the session's widget   *)
(* values are drawn in the initial state; the call itself is the step.     *)
(***************************************************************************)
\* a dataset with rows and no column, as pd.DataFrame([{}, {}])
RowsWithoutColumns == [cols |-> <<>>, dtypes |-> <<>>, rows |-> << <<>>, <<>> >>]

ControlDatasets ==
    { [cols |-> FilterCols, dtypes |-> FilterDtypes,
       rows |-> << <<0, 0, "x">>, <<NaN, 1, "y">> >>],
      [cols |-> <<"c", "d">>, dtypes |-> <<"object", "object">>,
       rows |-> << <<"x", "1">> >>],
      [cols |-> <<"a">>, dtypes |-> <<"number">>, rows |-> << <<0>>, <<1>> >>],
      RowsWithoutColumns }

\* what the session may hold for the chart widgets, values of an earlier
\* dataset included
ControlSessions ==
    {("Chart Type" :> t) @@ ("X-axis Column" :> x) @@ ("Y-axis Column" :> y)
        @@ ("Size Column (Optional)" :> z) :
        t \in Range(ChartTypes), x \in {"a", "c", "gone"}, y \in {"a", "b", "c"},
        z \in {NoColumn, <<"a">>, <<"c">>}}
    \cup {<<>>}

InitControls ==
    /\ uploaded_file = NoFile
    /\ load_result = NotCalled
    /\ sample_data = None
    /\ widget_state = <<>>
    /\ filtered_df = None
    /\ chart_call = None
    /\ chart_outcome = None
    /\ data_source = DataSources[1]
    /\ rendered = None
    /\ chart_config \in {[df |-> d, ws |-> w, returned |-> None] :
                            d \in ControlDatasets, w \in ControlSessions}
    /\ analysis_df = None
    /\ quality_report = None
    /\ stat_summary = None
    /\ NoSampleLoaded
    /\ NoSessions

RenderChartControls ==
    /\ chart_config.returned = None
    /\ chart_config' = [chart_config EXCEPT
                           !.returned = render_chart_controls(chart_config.df, chart_config.ws)]
    /\ UNCHANGED <<loadVars, filterVars, chartVars, pageVars,
                   analysis_df, quality_report, stat_summary, sampleVars, sessionVars>>

NextControls == RenderChartControls

SpecControls == InitControls /\ [][NextControls]_vars

(***************************************************************************)
(* Claims about the chart controls                                         *)
(***************************************************************************)
ControlsReturned == chart_config # None /\ chart_config.returned # None

NumericColumnsOf(df) == {df.cols[j] : j \in {k \in 1..Len(df.cols) : df.dtypes[k] = "number"}}

\* the chart spec invariant for the spec cfg over the dataset df
ChartSpecInvariant(df, cfg) ==
    /\ cfg.x_col \in Range(df.cols)
    /\ cfg.y_col \in Range(df.cols)
    /\ cfg.chart_type # "Scatter Plot" => cfg.size_col = NoColumn
    /\ cfg.size_col # NoColumn => cfg.size_col[1] \in NumericColumnsOf(df)

\* C11: every chart spec render_chart_controls produces satisfies the chart
\* spec invariant: x_col and y_col are columns of the dataset passed in,
\* size_col is absent unless the chart kind is Scatter Plot, and a present
\* size_col is a numeric column of that dataset.
C11_ChartSpecInvariant ==
    ControlsReturned => ChartSpecInvariant(chart_config.df, chart_config.returned)

\* the invariant holds for every dataset that has a column
C11_HoldsWithColumns ==
    (ControlsReturned /\ chart_config.df.cols # <<>>) =>
        ChartSpecInvariant(chart_config.df, chart_config.returned)

\* a stale size column that is text in the new dataset is not taken over
C11_Witness ==
    /\ ControlsReturned
    /\ chart_config.df.cols = FilterCols
    /\ chart_config.ws # <<>>
    /\ chart_config.ws["Size Column (Optional)"] = <<"c">>
    /\ chart_config.ws["X-axis Column"] = "gone"
    /\ chart_config.returned.chart_type = "Scatter Plot"
    /\ chart_config.returned.size_col = NoColumn
    /\ chart_config.returned.x_col = "a"

(***************************************************************************)
(* The data analysis page, pages/data_analysis.py: the overview, the       *)
(* statistical summary and the quality check of one dataset.  A dataset    *)
(* column is "number", "object" or "category"; a missing value is NaN in a *)
(* number column and NaNText in the others.  Percentages are counted in    *)
(* hundredths of a percent.                                                *)
(***************************************************************************)
MaxAnalysisRows == 3   \* rows of a dataset given to the analysis sections

\* pd.isna of a value of a column of the given dtype
IsMissing(dtype, v) == IF dtype = "number" THEN v = NaN ELSE v = NaNText

\* the positions of the missing values of a column
MissingAt(df, col) ==
    {i \in 1..Len(df.rows) : IsMissing(df.dtypes[ColIndex(df, col)],
                                       df.rows[i][ColIndex(df, col)])}

\* df.isnull().sum()[col]
isnull_sum(df, col) == Cardinality(MissingAt(df, col))

\* df.count()[col]
non_null_count(df, col) == Cardinality((1..Len(df.rows)) \ MissingAt(df, col))

\* the values of a column that are not missing, in row order
dropna(df, col) ==
    ColumnValues(df, SelectSeq(df.rows,
                               LAMBDA r : ~IsMissing(df.dtypes[ColIndex(df, col)],
                                                     r[ColIndex(df, col)])), col)

\* df.nunique()[col]
nunique(df, col) == Cardinality(Range(dropna(df, col)))

RECURSIVE SumOver(_, _)
SumOver(f, keys) == IF keys = <<>> THEN 0 ELSE f[Head(keys)] + SumOver(f, Tail(keys))

\* lines 74-84 and 70-71: the column information table and the metrics
render_data_overview(df) ==
    [total_rows |-> Len(df.rows),
     total_columns |-> Len(df.cols),
     missing_values |-> SumOver([c \in Range(df.cols) |-> isnull_sum(df, c)], df.cols),
     col_info |-> [j \in 1..Len(df.cols) |->
                      [Column |-> df.cols[j],
                       Type |-> df.dtypes[j],
                       NonNullCount |-> non_null_count(df, df.cols[j]),
                       NullCount |-> isnull_sum(df, df.cols[j]),
                       UniqueValues |-> nunique(df, df.cols[j])]]]

\* (missing / len(df) * 100) cut to 2 decimals instead of rounded
MissingPctTruncated(missing, rows) == (missing * 10000) \div rows

\* (missing / len(df) * 100).round(2), in hundredths; numpy rounds halves to even
MissingPct(missing, rows) ==
    IF 2 * ((missing * 10000) % rows) > rows THEN (missing * 10000) \div rows + 1
    ELSE IF 2 * ((missing * 10000) % rows) = rows
         THEN (missing * 10000) \div rows + (((missing * 10000) \div rows) % 2)
    ELSE (missing * 10000) \div rows

\* lines 185-198: the table of the columns with missing values, empty when
\* the success message is shown instead
MissingTable(df) ==
    [j \in 1..Len(SelectSeq(df.cols, LAMBDA c : isnull_sum(df, c) > 0)) |->
        [Column |-> SelectSeq(df.cols, LAMBDA c : isnull_sum(df, c) > 0)[j],
         MissingCount |-> isnull_sum(df, SelectSeq(df.cols,
                                                   LAMBDA c : isnull_sum(df, c) > 0)[j]),
         MissingPercent |-> MissingPct(isnull_sum(df, SelectSeq(df.cols,
                                                   LAMBDA c : isnull_sum(df, c) > 0)[j]),
                                       Len(df.rows))]]

\* df.duplicated().sum(): the rows equal to an earlier row; a frame without
\* rows or without columns has no duplicated row (DataFrame.empty)
duplicated_sum(df) ==
    IF df.cols = <<>> \/ df.rows = <<>> THEN 0
    ELSE Cardinality({i \in 1..Len(df.rows) : \E j \in 1..(i - 1) : df.rows[j] = df.rows[i]})

Digits == "0123456789"

\* a text of decimal digits
IsNumericText(s) ==
    /\ s # ""
    /\ \A i \in 1..Len(s) : Position(SubSeq(s, i, i), Digits) > 0

RECURSIVE ParseDigits(_)
ParseDigits(s) ==
    IF s = "" THEN 0
    ELSE ParseDigits(SubSeq(s, 1, Len(s) - 1)) * 10
         + (Position(SubSeq(s, Len(s), Len(s)), Digits) - 1)

RECURSIVE IntText(_)
\* str(n) for n >= 0
IntText(n) ==
    IF n < 10 THEN SubSeq(Digits, n + 1, n + 1)
    ELSE IntText(n \div 10) \o SubSeq(Digits, (n % 10) + 1, (n % 10) + 1)

\* the positions of the values of a text column that are no number
Unparsable(values) ==
    {i \in 1..Len(values) : values[i] # NaNText /\ ~IsNumericText(values[i])}

\* pd.to_numeric(series, errors="raise") of a text column: the numbers, with
\* NaN for a missing value, or the error of the first text that is no number
to_numeric(values) ==
    IF Unparsable(values) = {}
    THEN [ok |-> TRUE,
          values |-> [i \in 1..Len(values) |->
                         IF values[i] = NaNText THEN NaN ELSE ParseDigits(values[i])]]
    ELSE Raise("ValueError",
               "Unable to parse string \"" \o
               values[CHOOSE i \in Unparsable(values) : \A j \in Unparsable(values) : i <= j]
               \o "\" at position " \o
               IntText((CHOOSE i \in Unparsable(values) :
                            \A j \in Unparsable(values) : i <= j) - 1))

TypeIssueText(col) ==
    "Column '" \o col \o "' contains numeric data but is stored as text"

\* lines 211-221 without the test of the column's dtype
TypeIssuesOfAnyDtype(df) ==
    SelectSeq(df.cols,
              LAMBDA c : \/ df.dtypes[ColIndex(df, c)] = "number"
                         \/ to_numeric(ColumnValues(df, df.rows, c)).ok)

\* lines 211-221: the columns of dtype object that pd.to_numeric accepts
TypeIssues(df) ==
    SelectSeq(df.cols,
              LAMBDA c : /\ df.dtypes[ColIndex(df, c)] = "object"
                         /\ to_numeric(ColumnValues(df, df.rows, c)).ok)

NoMissingText == "No missing values found!"
NoDuplicatesText == "No duplicate rows found!"
GoodTypesText == "Data types look good!"

\* lines 174-227
render_data_quality_check(df) ==
    [missing_table |-> IF render_data_overview(df).missing_values > 0
                       THEN MissingTable(df) ELSE <<>>,
     duplicates |-> duplicated_sum(df),
     type_issues |-> TypeIssues(df),
     messages |->
        (IF render_data_overview(df).missing_values > 0 THEN <<>> ELSE <<NoMissingText>>)
        \o (IF duplicated_sum(df) > 0
            THEN <<"Found " \o IntText(duplicated_sum(df)) \o " duplicate rows">>
            ELSE <<NoDuplicatesText>>)
        \o (IF TypeIssues(df) # <<>>
            THEN [k \in 1..Len(TypeIssues(df)) |-> TypeIssueText(TypeIssues(df)[k])]
            ELSE <<GoodTypesText>>)]

\* the characters of the texts of the datasets, in code point order
CharOrder == Digits \o Uppercase \o Lowercase

RECURSIVE TextBefore(_, _)
\* s < t for Python strings
TextBefore(s, t) ==
    IF t = "" THEN FALSE
    ELSE IF s = "" THEN TRUE
    ELSE IF SubSeq(s, 1, 1) = SubSeq(t, 1, 1)
         THEN TextBefore(SubSeq(s, 2, Len(s)), SubSeq(t, 2, Len(t)))
    ELSE Position(SubSeq(s, 1, 1), CharOrder) < Position(SubSeq(t, 1, 1), CharOrder)

\* the number of occurrences of v
CountOf(values, v) == Cardinality({i \in 1..Len(values) : values[i] = v})

\* the highest number of occurrences of one value, 0 when there is no value
MaxCount(values) ==
    IF values = <<>> THEN 0
    ELSE CHOOSE n \in {CountOf(values, v) : v \in Range(values)} :
             \A v \in Range(values) : CountOf(values, v) <= n

RECURSIVE SortedTexts(_)
\* np.sort of a set of texts
SortedTexts(S) ==
    IF S = {} THEN <<>>
    ELSE <<CHOOSE m \in S : \A v \in S \ {m} : TextBefore(m, v)>>
         \o SortedTexts(S \ {CHOOSE m \in S : \A v \in S \ {m} : TextBefore(m, v)})

\* Series.mode() over the values that are not missing: the most frequent
\* values, sorted
mode(present) ==
    SortedTexts({v \in Range(present) : CountOf(present, v) = MaxCount(present)})

RECURSIVE ByCount(_, _)
\* the labels with their counts, highest count first
ByCount(present, labels) ==
    IF labels = <<>> THEN <<>>
    ELSE <<[value |-> SelectSeq(labels, LAMBDA v : \A w \in Range(labels) :
                                    CountOf(present, w) <= CountOf(present, v))[1],
            count |-> MaxCount(SelectSeq(present, LAMBDA x : x \in Range(labels)))]>>
         \o ByCount(present,
                    SelectSeq(labels,
                              LAMBDA u : u # SelectSeq(labels, LAMBDA v : \A w \in Range(labels) :
                                              CountOf(present, w) <= CountOf(present, v))[1]))

\* Series.value_counts() over the values that are not missing
value_counts(present) == ByCount(present, AppendNew(<<>>, present))

IndexOutOfBounds == [type |-> "IndexError", msg |-> "single positional indexer is out-of-bounds"]

\* line 161-164: df[col].mode().iloc[0] if len(df[col].mode()) > 0 else "N/A"
MostFrequent(df, col) ==
    IF Len(mode(dropna(df, col))) > 0 THEN mode(dropna(df, col))[1] ELSE "N/A"

\* line 165-168: df[col].value_counts().iloc[0] if len(df[col]) > 0 else 0,
\* where .iloc[0] of a series without entries raises
Frequency(df, col) ==
    IF Len(df.rows) > 0
    THEN IF value_counts(dropna(df, col)) = <<>>
         THEN [ok |-> FALSE, exc |-> IndexOutOfBounds]
         ELSE [ok |-> TRUE, value |-> value_counts(dropna(df, col))[1].count]
    ELSE [ok |-> TRUE, value |-> 0]

NumericHeading == "Numeric Columns:"
CategoricalHeading == "Categorical Columns:"

\* lines 156-170: the table of the categorical columns
cat_summary(df, categorical_cols) ==
    [j \in 1..Len(categorical_cols) |->
        [Column |-> categorical_cols[j],
         UniqueValues |-> nunique(df, categorical_cols[j]),
         MostFrequent |-> MostFrequent(df, categorical_cols[j]),
         Frequency |-> Frequency(df, categorical_cols[j]).value]]

\* what the function leaves behind: the elements shown, the columns
\* described, the categorical table, and the exception that left it, if any
SummaryOutcome(elements, numeric, categorical, raised) ==
    [ok |-> raised = None, elements |-> elements, numeric |-> numeric,
     categorical |-> categorical, exc |-> raised]

\* lines 137-171
Summarise(df, numeric_cols, categorical_cols) ==
    IF categorical_cols = <<>>
    THEN SummaryOutcome(IF numeric_cols # <<>> THEN <<NumericHeading>> ELSE <<>>,
                        numeric_cols, <<>>, None)
    ELSE IF \E c \in Range(categorical_cols) : ~Frequency(df, c).ok
    THEN SummaryOutcome((IF numeric_cols # <<>> THEN <<NumericHeading>> ELSE <<>>)
                            \o <<CategoricalHeading>>,
                        numeric_cols, <<>>, IndexOutOfBounds)
    ELSE SummaryOutcome((IF numeric_cols # <<>> THEN <<NumericHeading>> ELSE <<>>)
                            \o <<CategoricalHeading>>,
                        numeric_cols, cat_summary(df, categorical_cols), None)

render_statistical_summary(df) ==
    Summarise(df, select_dtypes(df, {"number"}), select_dtypes(df, {"object", "category"}))

(***************************************************************************)
(* Calls of the sections of the data analysis page.  The dataset is drawn  *)
(* in the initial state; each section is called on it once, in any order.  *)
(***************************************************************************)
AnalysisNumbers == {NaN, 1}
AnalysisTexts == {NaNText, "b", "a", "1"}

\* test_data_analysis.py:156-161
DuplicateExample ==
    [cols |-> <<"id", "name">>, dtypes |-> <<"number", "object">>,
     rows |-> << <<1, "A">>, <<2, "B">>, <<2, "B">>, <<3, "C">> >>]

\* test_data_analysis.py:172-178; pandas gives the all-None column dtype object
MissingExample ==
    [cols |-> <<"complete", "partial", "empty">>,
     dtypes |-> <<"number", "number", "object">>,
     rows |-> << <<1, 1, NaNText>>, <<2, NaN, NaNText>>, <<3, 3, NaNText>>,
                 <<4, NaN, NaNText>> >>]

\* test_data_analysis.py:132-138
TypeExample ==
    [cols |-> <<"numeric_string", "text", "mixed">>,
     dtypes |-> <<"object", "object", "object">>,
     rows |-> << <<"1", "apple", "1">>, <<"2", "banana", "text">>,
                 <<"3", "cherry", "3">> >>]

\* the datasets of up to max_rows rows over a number and a text column, those
\* over one of the two, the frames without columns and the tests' datasets
AnalysisDatasets(max_rows) ==
    {[cols |-> <<"id", "name">>, dtypes |-> <<"number", "object">>, rows |-> r] :
        r \in SeqsUpTo(AnalysisNumbers \X AnalysisTexts, max_rows)}
    \cup
    {[cols |-> <<"id">>, dtypes |-> <<"number">>, rows |-> r] :
        r \in SeqsUpTo({<<v>> : v \in AnalysisNumbers}, max_rows)}
    \cup
    {[cols |-> <<"name">>, dtypes |-> <<t>>, rows |-> r] :
        t \in {"object", "category"},
        r \in SeqsUpTo({<<v>> : v \in AnalysisTexts}, max_rows)}
    \cup
    {EmptyFrame, RowsWithoutColumns, DuplicateExample, MissingExample, TypeExample}

NotRendered == [overview |-> None, check |-> None]

InitAnalysis ==
    /\ uploaded_file = NoFile
    /\ load_result = NotCalled
    /\ sample_data = None
    /\ widget_state = <<>>
    /\ filtered_df = None
    /\ chart_call = None
    /\ chart_outcome = None
    /\ data_source = DataSources[1]
    /\ rendered = None
    /\ chart_config = None
    /\ analysis_df \in AnalysisDatasets(MaxAnalysisRows)
    /\ quality_report = NotRendered
    /\ stat_summary = None
    /\ NoSampleLoaded
    /\ NoSessions

RenderDataOverview ==
    /\ quality_report.overview = None
    /\ quality_report' = [quality_report EXCEPT !.overview = render_data_overview(analysis_df)]
    /\ UNCHANGED <<loadVars, filterVars, chartVars, pageVars, chart_config, analysis_df,
                   stat_summary, sampleVars, sessionVars>>

RenderStatisticalSummary ==
    /\ stat_summary = None
    /\ stat_summary' = render_statistical_summary(analysis_df)
    /\ UNCHANGED <<loadVars, filterVars, chartVars, pageVars, chart_config, analysis_df,
                   quality_report, sampleVars, sessionVars>>

RenderDataQualityCheck ==
    /\ quality_report.check = None
    /\ quality_report' = [quality_report EXCEPT !.check = render_data_quality_check(analysis_df)]
    /\ UNCHANGED <<loadVars, filterVars, chartVars, pageVars, chart_config, analysis_df,
                   stat_summary, sampleVars, sessionVars>>

NextAnalysis == RenderDataOverview \/ RenderStatisticalSummary \/ RenderDataQualityCheck

SpecAnalysis == InitAnalysis /\ [][NextAnalysis]_vars

(***************************************************************************)
(* Claims about the quality report                                         *)
(***************************************************************************)
OverviewRendered == quality_report # None /\ quality_report.overview # None
CheckRendered == quality_report # None /\ quality_report.check # None

AnalysedRows == Len(analysis_df.rows)

\* the percentage, in hundredths, is the hundredth nearest to nulls / rows * 100
NearestHundredth(pct, nulls, rows) ==
    /\ 2 * (pct * rows - nulls * 10000) <= rows
    /\ 2 * (nulls * 10000 - pct * rows) <= rows

\* C14: for every dataset with at least one row and every column, the
\* quality report's null count plus its non-null count equals the row
\* count, and the reported missing percentage equals null count / row count
\* * 100 rounded to 2 decimals (a column [1, None, 3, None] gives 2, 2 and
\* 50.0; an all-null column gives 100.0).
C14_NullCountsAndPercent ==
    /\ (OverviewRendered /\ AnalysedRows >= 1) =>
          \A j \in 1..Len(quality_report.overview.col_info) :
              quality_report.overview.col_info[j].NullCount
                  + quality_report.overview.col_info[j].NonNullCount = AnalysedRows
    /\ (CheckRendered /\ AnalysedRows >= 1) =>
          \A j \in 1..Len(quality_report.check.missing_table) :
              NearestHundredth(quality_report.check.missing_table[j].MissingPercent,
                               quality_report.check.missing_table[j].MissingCount,
                               AnalysedRows)
    /\ (OverviewRendered /\ CheckRendered /\ AnalysedRows >= 1) =>
          \A j \in 1..Len(quality_report.check.missing_table) :
              \E k \in 1..Len(quality_report.overview.col_info) :
                  /\ quality_report.overview.col_info[k].Column
                        = quality_report.check.missing_table[j].Column
                  /\ quality_report.overview.col_info[k].NullCount
                        = quality_report.check.missing_table[j].MissingCount
    /\ (OverviewRendered /\ CheckRendered /\ analysis_df = MissingExample) =>
          /\ quality_report.overview.col_info[2].NullCount = 2
          /\ quality_report.overview.col_info[2].NonNullCount = 2
          /\ quality_report.check.missing_table =
                << [Column |-> "partial", MissingCount |-> 2, MissingPercent |-> 5000],
                   [Column |-> "empty", MissingCount |-> 4, MissingPercent |-> 10000] >>

\* a column with two of its three values missing: 66.67 percent
C14_Witness ==
    /\ OverviewRendered
    /\ CheckRendered
    /\ AnalysedRows = 3
    /\ \E j \in 1..Len(quality_report.check.missing_table) :
           /\ quality_report.check.missing_table[j].MissingCount = 2
           /\ quality_report.check.missing_table[j].MissingPercent = 6667

\* the rows of the dataset analysed that are identical to an earlier row
RepeatedRows == AnalysedRows - Cardinality(Range(analysis_df.rows))

DuplicateCountMatches ==
    /\ quality_report.check.duplicates = RepeatedRows
    /\ (NoDuplicatesText \in Range(quality_report.check.messages)
            <=> quality_report.check.duplicates = 0)
    /\ analysis_df = DuplicateExample => quality_report.check.duplicates = 1

\* C15: the duplicate-row count of a dataset is the number of rows that are
\* identical in every column to some earlier row, that is, the row count
\* minus the number of distinct rows; {id:[1,2,2,3], name:[A,B,B,C]} gives 1,
\* and the 'no duplicate rows' message is shown exactly when the count is 0.
C15_DuplicateCount == CheckRendered => DuplicateCountMatches

\* the same for the datasets that have at least one column
C15_HoldsWithColumns ==
    (CheckRendered /\ analysis_df.cols # <<>>) => DuplicateCountMatches

\* three rows over two columns, the third equal to the first
C15_Witness ==
    /\ CheckRendered
    /\ AnalysedRows = 3
    /\ Len(analysis_df.cols) = 2
    /\ analysis_df.rows[3] = analysis_df.rows[1]
    /\ analysis_df.rows[2] # analysis_df.rows[1]
    /\ quality_report.check.duplicates = 1
    /\ NoDuplicatesText \notin Range(quality_report.check.messages)

NumericTexts == {"1", "2", "3"}

\* every value of the column is missing or a text that reads as a number
AllValuesCoerce(col) ==
    \A i \in 1..AnalysedRows :
        \/ analysis_df.rows[i][ColIndex(analysis_df, col)] = NaNText
        \/ analysis_df.rows[i][ColIndex(analysis_df, col)] \in NumericTexts

\* C16: a column is flagged as 'numeric stored as text' if and only if it is
\* text-typed and every one of its values coerces to a number; a single
\* value that fails to coerce keeps the whole column off the flag list, and
\* columns of any non-text type are never flagged.
C16_FlaggedIffNumericText ==
    CheckRendered =>
        \A j \in 1..Len(analysis_df.cols) :
            (/\ analysis_df.cols[j] \in Range(quality_report.check.type_issues)
             /\ TypeIssueText(analysis_df.cols[j]) \in Range(quality_report.check.messages))
            <=> (analysis_df.dtypes[j] = "object" /\ AllValuesCoerce(analysis_df.cols[j]))

\* a number column beside a text column whose values all read as numbers, and
\* the test's dataset with a column that one value keeps off the list
C16_Witness ==
    /\ CheckRendered
    /\ \/ /\ analysis_df.cols = <<"id", "name">>
          /\ AnalysedRows = 2
          /\ quality_report.check.type_issues = <<"name">>
       \/ /\ analysis_df = TypeExample
          /\ quality_report.check.type_issues = <<"numeric_string">>

(***************************************************************************)
(* Claims about the statistical summary                                    *)
(***************************************************************************)
SummaryRendered == stat_summary # None

NumericColumns == select_dtypes(analysis_df, {"number"})
CategoricalColumns == select_dtypes(analysis_df, {"object", "category"})

\* the categorical column has no value, or only missing ones
WithoutValues(col) ==
    \A i \in 1..AnalysedRows : analysis_df.rows[i][ColIndex(analysis_df, col)] = NaNText

\* C17: render_statistical_summary never raises, for any dataset: when
\* there are no numeric columns the numeric sub-report is omitted, when there
\* are no categorical columns the categorical sub-report is omitted, and a
\* categorical column that is empty or holds only missing values still
\* yields a row (most-frequent value and frequency) instead of an error.
C17_SummaryNeverRaises ==
    SummaryRendered =>
        /\ stat_summary.ok
        /\ NumericHeading \in Range(stat_summary.elements) <=> NumericColumns # <<>>
        /\ CategoricalHeading \in Range(stat_summary.elements) <=> CategoricalColumns # <<>>
        /\ Len(stat_summary.categorical) = Len(CategoricalColumns)
        /\ \A j \in 1..Len(CategoricalColumns) :
               WithoutValues(CategoricalColumns[j]) =>
                   /\ stat_summary.categorical[j].Column = CategoricalColumns[j]
                   /\ stat_summary.categorical[j].MostFrequent = "N/A"
                   /\ stat_summary.categorical[j].Frequency = 0

\* the part of C17 that holds: the sub-reports shown are those of the kinds
\* of column the dataset has, and a categorical column without rows yields a
\* row
C17_SubReportsFollowColumns ==
    SummaryRendered =>
        /\ NumericHeading \in Range(stat_summary.elements) <=> NumericColumns # <<>>
        /\ CategoricalHeading \in Range(stat_summary.elements) <=> CategoricalColumns # <<>>
        /\ (AnalysedRows = 0 /\ CategoricalColumns # <<>>) =>
               /\ stat_summary.ok
               /\ stat_summary.categorical[1].MostFrequent = "N/A"
               /\ stat_summary.categorical[1].Frequency = 0

\* the summary of a categorical column that holds only missing values
C17_Raised ==
    /\ SummaryRendered
    /\ ~stat_summary.ok
    /\ stat_summary.exc = IndexOutOfBounds
    /\ AnalysedRows >= 1
    /\ \E j \in 1..Len(CategoricalColumns) : WithoutValues(CategoricalColumns[j])

\* the first most frequent value of the column, in row order
FirstEncounteredMode(col) ==
    LET present == dropna(analysis_df, col)
    IN  present[CHOOSE i \in 1..Len(present) :
                    /\ CountOf(present, present[i]) = MaxCount(present)
                    /\ \A k \in 1..(i - 1) : CountOf(present, present[k]) < MaxCount(present)]

SummaryRowsMatch(first_encountered) ==
    \A j \in 1..Len(stat_summary.categorical) :
        /\ stat_summary.categorical[j].Column = CategoricalColumns[j]
        /\ stat_summary.categorical[j].UniqueValues
              = Cardinality(Range(dropna(analysis_df, CategoricalColumns[j])))
        /\ dropna(analysis_df, CategoricalColumns[j]) # <<>> =>
              /\ stat_summary.categorical[j].MostFrequent
                    \in Range(dropna(analysis_df, CategoricalColumns[j]))
              /\ stat_summary.categorical[j].Frequency
                    = CountOf(dropna(analysis_df, CategoricalColumns[j]),
                              stat_summary.categorical[j].MostFrequent)
              /\ stat_summary.categorical[j].Frequency
                    = MaxCount(dropna(analysis_df, CategoricalColumns[j]))
              /\ first_encountered =>
                    stat_summary.categorical[j].MostFrequent
                        = FirstEncounteredMode(CategoricalColumns[j])

\* C18: for every categorical column the statistical summary reports the
\* number of distinct values, the most frequent value, and the number of
\* occurrences of that same reported value; when several values share the
\* highest frequency the one reported is the one that occurs first in the
\* column (first-encountered order).
C18_MostFrequentFirstEncountered ==
    (SummaryRendered /\ stat_summary.ok) => SummaryRowsMatch(TRUE)

\* the part of C18 that holds: distinct count, a most frequent value and its
\* number of occurrences
C18_CountsMatchReportedValue ==
    (SummaryRendered /\ stat_summary.ok) => SummaryRowsMatch(FALSE)

\* a tie whose first-encountered value is not the one reported
C18_TieReportsSmallest ==
    /\ SummaryRendered
    /\ stat_summary.ok
    /\ analysis_df.cols = <<"name">>
    /\ analysis_df.rows = << <<"b">>, <<"a">> >>
    /\ stat_summary.categorical[1].MostFrequent = "a"

(***************************************************************************)
(* The sample dataset, components/charts.py load_sample_data.  numpy's      *)
(* global generator is a seed and the number of values drawn since it was  *)
(* seeded.  The tables hold what the generator yields right after          *)
(* np.random.seed(42), in the order the function draws: standard normal    *)
(* values in millionths, the positions np.random.choice picks, and the      *)
(* Poisson counts.  The function never reads the generator in another      *)
(* state; for those states the tables are read from another position.      *)
(* Satisfaction is counted in tenths.                                      *)
(***************************************************************************)
n_samples == 100

SampleSeed == 42

\* line 233: the standard normal draws behind np.random.normal(1000, 200, n_samples)
SalesNormals ==
    << 496714, -138264, 647689, 1523030, -234153, -234137, 1579213, 767435, -469474, 542560,
       -463418, -465730, 241962, -1913280, -1724918, -562288, -1012831, 314247, -908024, -1412304,
       1465649, -225776, 67528, -1424748, -544383, 110923, -1150994, 375698, -600639, -291694,
       -601707, 1852278, -13497, -1057711, 822545, -1220844, 208864, -1959670, -1328186, 196861,
       738467, 171368, -115648, -301104, -1478522, -719844, -460639, 1057122, 343618, -1763040,
       324084, -385082, -676922, 611676, 1031000, 931280, -839218, -309212, 331263, 975545,
       -479174, -185659, -1106335, -1196207, 812526, 1356240, -72010, 1003533, 361636, -645120,
       361396, 1538037, -35826, 1564644, -2619745, 821903, 87047, -299007, 91761, -1987569,
       -219672, 357113, 1477894, -518270, -808494, -501757, 915402, 328751, -529760, 513267,
       97078, 968645, -702053, -327662, -392108, -1463515, 296120, 261055, 5113, -234587 >>

\* line 234: those behind np.random.normal(150, 50, n_samples)
ProfitNormals ==
    << -1415371, -420645, -342715, -802277, -161286, 404051, 1886186, 174578, 257550, -74446,
       -1918771, -26514, 60230, 2463242, -192361, 301547, -34712, -1168678, 1142823, 751933,
       791032, -909387, 1402794, -1401851, 586857, 2190456, -990536, -566298, 99651, -503476,
       -1550663, 68563, -1062304, 473592, -919424, 1549934, -783253, -322062, 813517, -1230864,
       227460, 1307143, -1607483, 184634, 259883, 781823, -1236951, -1320457, 521942, 296985,
       250493, 346448, -680025, 232254, 293072, -714351, 1865775, 473833, -1191303, 656554,
       -974682, 787085, 1158596, -820682, 963376, 412781, 822060, 1896793, -245388, -753736,
       -889514, -815810, -77102, 341152, 276691, 827183, 13002, 1453534, -264657, 2720169,
       625667, -857158, -1070892, 482472, -223463, 714000, 473238, -72829, -846794, -1514847,
       -446515, 856399, 214094, -1245739, 173181, 385317, -883857, 153725, 58209, -1142970 >>

\* line 235: the positions np.random.choice picks among the three categories
CategoryDraws ==
    << 2, 2, 1, 1, 1, 3, 2, 3, 1, 2,
       3, 2, 3, 2, 1, 1, 2, 3, 1, 1,
       1, 2, 2, 3, 3, 3, 2, 2, 3, 3,
       2, 3, 1, 2, 3, 2, 1, 2, 2, 2,
       2, 1, 2, 2, 3, 2, 3, 1, 1, 1,
       1, 3, 2, 1, 2, 3, 3, 3, 1, 2,
       2, 2, 3, 1, 3, 3, 2, 3, 2, 1,
       2, 1, 2, 3, 3, 1, 1, 1, 2, 2,
       1, 3, 2, 2, 2, 1, 1, 1, 1, 1,
       3, 3, 1, 2, 1, 3, 3, 2, 3, 1 >>

\* line 236: the positions np.random.choice picks among the four regions
RegionDraws ==
    << 2, 1, 1, 2, 4, 1, 3, 1, 2, 2,
       2, 4, 1, 4, 4, 2, 2, 4, 1, 3,
       4, 1, 2, 2, 1, 3, 2, 2, 2, 1,
       4, 2, 4, 3, 2, 2, 3, 2, 4, 1,
       4, 1, 1, 4, 4, 4, 4, 3, 2, 1,
       4, 4, 4, 3, 4, 4, 4, 2, 3, 4,
       1, 1, 1, 3, 3, 1, 4, 3, 1, 1,
       4, 2, 3, 4, 1, 1, 4, 3, 2, 2,
       1, 3, 2, 3, 3, 1, 2, 4, 1, 2,
       2, 2, 2, 2, 3, 1, 3, 4, 2, 1 >>

\* line 237: np.random.poisson(50, n_samples)
PoissonDraws ==
    << 47, 48, 52, 41, 52, 51, 54, 44, 51, 48,
       39, 47, 54, 50, 39, 51, 65, 51, 58, 44,
       60, 50, 52, 60, 61, 47, 50, 54, 46, 45,
       51, 56, 55, 44, 49, 51, 51, 62, 54, 42,
       54, 68, 48, 46, 53, 44, 47, 49, 45, 52,
       41, 64, 52, 38, 51, 48, 47, 48, 51, 31,
       54, 52, 56, 44, 44, 56, 45, 50, 58, 38,
       52, 48, 53, 61, 53, 39, 51, 61, 50, 57,
       58, 36, 52, 43, 47, 49, 48, 42, 48, 52,
       57, 47, 51, 47, 41, 46, 50, 50, 47, 59 >>

\* line 243: the standard normal draws behind np.random.normal(0, 30, n_samples)
NoiseNormals ==
    << 178128, 35635, 799691, 69006, 768727, -780343, 1780729, 252480, 400219, -784512,
       471827, 651065, -1169768, -1659092, 293666, -488770, 259921, -1291036, -1560506, 206689,
       -349784, -2110700, 1343099, -1307657, 2573325, -624017, 401561, 1646949, 1479434, 1986136,
       -1523076, -1135865, 225997, 839747, -11227, -1637994, 496578, -194251, -206239, -2277950,
       797484, 145204, 1795165, -74508, 566340, 831818, -1746162, 2616700, -430792, 494567,
       640582, -814784, 1846980, 265955, -213473, 138508, 764252, 10798, 881930, -1684872,
       -747970, -2138800, 1997008, 1983992, 626616, -1012618, 2389878, -604414, -213207, 159533,
       451516, 643803, 683962, -144524, 668101, -189208, 579303, 497292, 762847, 637967,
       -442432, 458710, 653400, -1291124, -274044, 608114, 1709292, 824900, 1772378, -398373,
       250190, 805735, -2326352, 1510803, -1860910, 996940, 686832, -2339593, -2289061, 1432482 >>

\* line 245: those behind np.random.normal(0, 0.5, n_samples)
SatisfactionNormals ==
    << 1214722, -880864, -881879, 512605, -12744, 1054395, 479581, 1583031, 970078, 720773,
       -352125, -425321, -51759, 1840943, -406275, 260529, -2244803, 675809, 2257198, -933638,
       3174442, 182241, -2572931, -385538, 1330439, 1999317, 718099, 1567594, -1177786, -680262,
       -1679459, -605063, 761919, 212656, 867849, -936514, -875525, 204610, -602648, 1301849,
       -627419, -495389, 418839, -389288, -1234944, -1099356, 537766, -1358712, 1397164, -690399,
       616216, -630413, -915241, 246104, 1051783, -247368, -65477, 807417, 840527, -38492,
       -443480, 82656, -190911, 312974, -1194270, 277182, -718303, 905888, -672468, -655110,
       445399, 14212, 2276652, -1629303, 109853, 1129649, -578314, -910558, -870865, -1611961,
       1349705, -329617, -448027, -2124098, -1433709, 1465390, 303106, 1166501, 1039992, -1000620,
       2429848, 1949733, -563766, -3568205, -356532, 238296, -567719, -221522, -828658, 921635 >>

\* np.random.seed(s)
np_random_seed(s) == [seed |-> s, used |-> 0]

\* where the tables are read for a generator state: at their start for the
\* generator seeded with SampleSeed
Shift(state) ==
    (state.seed + state.used + (n_samples - (SampleSeed % n_samples))) % n_samples

\* the n_samples values the k-th draw of a call yields from the given state
Drawn(table, state, k) ==
    [i \in 1..n_samples |->
        table[((i - 1 + Shift([state EXCEPT !.used = @ + k * n_samples])) % n_samples) + 1]]

Million == 1000000

\* ndarray.astype(int) of a value in millionths: the fraction is cut off
astype_int(x) == IF x >= 0 THEN x \div Million ELSE -((-x) \div Million)

\* line 233: np.random.normal(1000, 200, n_samples).astype(int)
Sales(z) == astype_int(1000 * Million + 200 * z)

\* line 243: (df["sales"] * 0.15 + np.random.normal(0, 30, n_samples)).astype(int)
Profit(sales, z) == astype_int(sales * 150000 + 30 * z)

\* lines 244-248 without np.clip, in tenths
SatisfactionUnclipped(profit, sales, z) ==
    IF sales = 0 THEN (IF profit > 0 THEN 50 ELSE IF profit < 0 THEN 10 ELSE NaN)
    ELSE ((profit * 500000) \div sales + (z \div 2000) + 50) \div 100

\* np.clip(x, 1, 5) of a value in thousandths
clip(x) == IF x < 1000 THEN 1000 ELSE IF x > 5000 THEN 5000 ELSE x

\* lines 244-248: np.clip(profit / sales * 100 * 5 + normal(0, 0.5), 1, 5).round(1),
\* in tenths; a division by zero gives infinity, or NaN for 0 / 0
Satisfaction(profit, sales, z) ==
    IF sales = 0 THEN (IF profit > 0 THEN 50 ELSE IF profit < 0 THEN 10 ELSE NaN)
    ELSE (clip((profit * 500000) \div sales + (z \div 2000)) + 50) \div 100

Categories == <<"A", "B", "C">>
Regions == <<"North", "South", "East", "West">>

SampleCols ==
    <<"date", "sales", "profit", "category", "region", "customer_count", "satisfaction">>
SampleDtypes ==
    <<"datetime", "number", "number", "object", "object", "number", "number">>

\* a date range of business days: a Monday start, no Saturday or Sunday
date_range_business_days(periods) ==
    [i \in 1..periods |-> (i - 1) + 2 * ((i - 1) \div 5)]

\* line 232: pd.date_range("2024-01-01", periods=n_samples, freq="D"), each
\* timestamp as the number of days after 2024-01-01
date_range(periods) == [i \in 1..periods |-> i - 1]

\* lines 229-248: the frame built from the values drawn; the date is the
\* number of days after 2024-01-01, and the profit column of line 234 is
\* replaced by that of line 243
SampleFrameOf(sales_z, category_i, region_i, customers, noise_z, satisfaction_z) ==
    [cols |-> SampleCols, dtypes |-> SampleDtypes,
     rows |-> [i \in 1..n_samples |->
                  << date_range(n_samples)[i],
                     Sales(sales_z[i]),
                     Profit(Sales(sales_z[i]), noise_z[i]),
                     Categories[category_i[i]],
                     Regions[region_i[i]],
                     customers[i],
                     Satisfaction(Profit(Sales(sales_z[i]), noise_z[i]),
                                  Sales(sales_z[i]), satisfaction_z[i]) >>]]

\* the seven draws of a call, from the generator state they start in
Generate(state) ==
    [df |-> SampleFrameOf(Drawn(SalesNormals, state, 0), Drawn(CategoryDraws, state, 2),
                          Drawn(RegionDraws, state, 3), Drawn(PoissonDraws, state, 4),
                          Drawn(NoiseNormals, state, 5),
                          Drawn(SatisfactionNormals, state, 6)),
     state |-> [state EXCEPT !.used = @ + 7 * n_samples]]

\* the body of load_sample_data without line 228, np.random.seed(42)
load_sample_data_unseeded(state) == Generate(state)

\* lines 215-251, the body of load_sample_data
load_sample_data(state) == Generate(np_random_seed(SampleSeed))

(***************************************************************************)
(* Calls of load_sample_data through st.cache_data, cache clears           *)
(* (settings.py:261) and other uses of the global generator, in any order. *)
(***************************************************************************)
MaxCalls == 3          \* calls of load_sample_data
MaxOtherDraws == 2     \* values other code draws from the generator in a row

OtherSeeds == {0, 7}

\* the state load_sample_data leaves the generator in
AfterSampleData == [seed |-> SampleSeed, used |-> 7 * n_samples]

InitSample ==
    /\ uploaded_file = NoFile
    /\ load_result = NotCalled
    /\ sample_data = None
    /\ widget_state = <<>>
    /\ filtered_df = None
    /\ chart_call = None
    /\ chart_outcome = None
    /\ data_source = DataSources[2]
    /\ rendered = None
    /\ NothingAnalysed
    /\ rng_state \in {np_random_seed(s) : s \in OtherSeeds}
    /\ sample_cache = None
    /\ sample_returns = <<>>
    /\ NoSessions

\* a call that st.cache_data answers from its entry
LoadSampleDataCached ==
    /\ Len(sample_returns) < MaxCalls
    /\ sample_cache # None
    /\ sample_returns' = Append(sample_returns,
                                [df |-> sample_cache, cached |-> TRUE, disturbed |-> FALSE])
    /\ UNCHANGED <<loadVars, filterVars, chartVars, pageVars, analysisVars,
                   rng_state, sample_cache, sessionVars>>

\* a call that runs the function and stores what it returns
LoadSampleData ==
    /\ Len(sample_returns) < MaxCalls
    /\ sample_cache = None
    /\ \E out \in {load_sample_data(rng_state)} :
           /\ rng_state' = out.state
           /\ sample_cache' = out.df
           /\ sample_returns' = Append(sample_returns,
                                       [df |-> out.df, cached |-> FALSE,
                                        disturbed |-> rng_state # AfterSampleData])
    /\ UNCHANGED <<loadVars, filterVars, chartVars, pageVars, analysisVars, sessionVars>>

\* settings.py:261, st.cache_data.clear()
ClearCache ==
    /\ sample_cache # None
    /\ sample_cache' = None
    /\ UNCHANGED <<loadVars, filterVars, chartVars, pageVars, analysisVars,
                   rng_state, sample_returns, sessionVars>>

\* other code draws a value from the global generator
OtherDraw ==
    /\ rng_state.used % n_samples < MaxOtherDraws
    /\ rng_state' = [rng_state EXCEPT !.used = @ + 1]
    /\ UNCHANGED <<loadVars, filterVars, chartVars, pageVars, analysisVars,
                   sample_cache, sample_returns, sessionVars>>

\* other code seeds the global generator
OtherSeed ==
    /\ \E s \in OtherSeeds :
           /\ rng_state # np_random_seed(s)
           /\ rng_state' = np_random_seed(s)
    /\ UNCHANGED <<loadVars, filterVars, chartVars, pageVars, analysisVars,
                   sample_cache, sample_returns, sessionVars>>

NextSample ==
    LoadSampleDataCached \/ LoadSampleData \/ ClearCache \/ OtherDraw \/ OtherSeed

SpecSample == InitSample /\ [][NextSample]_vars

(***************************************************************************)
(* Claims about the sample dataset                                         *)
(***************************************************************************)
\* C19: load_sample_data is deterministic: any two invocations, in any
\* order and with or without a cache clear in between, return datasets that
\* are equal in rows, columns, column types and values.
C19_SampleDataDeterministic ==
    \A i, j \in 1..Len(sample_returns) :
        /\ sample_returns[i].df.cols = sample_returns[j].df.cols
        /\ sample_returns[i].df.dtypes = sample_returns[j].df.dtypes
        /\ sample_returns[i].df.rows = sample_returns[j].df.rows

\* two runs of the function, the second after a cache clear and with the
\* generator in another state than the first run left it in, and a call
\* answered from the cache
C19_Witness ==
    /\ Len(sample_returns) = 3
    /\ ~sample_returns[1].cached
    /\ ~sample_returns[2].cached
    /\ sample_returns[2].disturbed
    /\ sample_returns[3].cached

ColumnOf(df, col) == {df.rows[i][ColIndex(df, col)] : i \in 1..Len(df.rows)}

\* C20: in the generated sample dataset every row satisfies: sales > 0,
\* 1 <= satisfaction <= 5, category is one of {A, B, C}, region is one of
\* {North, South, East, West}; and each of the three categories and each of
\* the four regions occurs at least once.
C20_SampleDataRanges ==
    \A k \in 1..Len(sample_returns) :
        /\ Len(sample_returns[k].df.rows) = n_samples
        /\ \A v \in ColumnOf(sample_returns[k].df, "sales") : v > 0
        /\ \A v \in ColumnOf(sample_returns[k].df, "satisfaction") : 10 <= v /\ v <= 50
        /\ ColumnOf(sample_returns[k].df, "category") = {"A", "B", "C"}
        /\ ColumnOf(sample_returns[k].df, "region") = {"North", "South", "East", "West"}

\* the function has run: its first row is that of the seeded generator
C20_Witness ==
    /\ Len(sample_returns) >= 1
    /\ ~sample_returns[1].cached
    /\ sample_returns[1].df.rows[1][2] = 1099
    /\ sample_returns[1].df.rows[1][4] = "B"
    /\ sample_returns[1].df.rows[1][7] = 50

\* the datasets the function computed or the cache handed back
ReturnedSamples == {sample_returns[k].df : k \in 1..Len(sample_returns)}

\* the cells of a column, in row order
CellsOf(df, col) == [i \in 1..Len(df.rows) |-> df.rows[i][ColIndex(df, col)]]

\* C21: the generated sample dataset has exactly 100 rows and the seven
\* columns date, sales, profit, category, region, customer_count,
\* satisfaction; the date column holds 100 consecutive daily timestamps
\* starting 2024-01-01, no cell is missing and no two rows are identical.
C21_SampleDataShape ==
    \A df \in ReturnedSamples :
        /\ Len(df.rows) = 100
        /\ Len(df.cols) = 7
        /\ Range(df.cols) = {"date", "sales", "profit", "category", "region",
                             "customer_count", "satisfaction"}
        /\ CellsOf(df, "date")[1] = 0
        /\ \A i \in 1..99 : CellsOf(df, "date")[i + 1] = CellsOf(df, "date")[i] + 1
        /\ \A c \in {"sales", "profit", "customer_count", "satisfaction"} :
               \A i \in 1..100 : CellsOf(df, c)[i] # NaN
        /\ \A c \in {"category", "region"} :
               \A i \in 1..100 : CellsOf(df, c)[i] # NaNText
        /\ \A i, j \in 1..100 : i # j => df.rows[i] # df.rows[j]

\* the function has run and its last row is that of 2024-04-09
C21_Witness ==
    /\ Len(sample_returns) >= 1
    /\ ~sample_returns[1].cached
    /\ Len(sample_returns[1].df.rows) = n_samples
    /\ sample_returns[1].df.rows[n_samples][1] = 99

(***************************************************************************)
(* Export to CSV, pages/data_analysis.py lines 296-305, and the way back   *)
(* through load_uploaded_data.  DataFrame.to_csv(buffer, index=False)      *)
(* writes the column labels as the first line and one line per row; the    *)
(* csv writer puts a line of one empty field in quotes, and writes a row    *)
(* without fields as an empty line.                                        *)
(***************************************************************************)
\* csv.writer.writerow without the quoting of a single empty field
writerow_unquoted(fields) ==
    IF fields = <<>> THEN <<"">> ELSE fields

\* csv.writer.writerow
writerow(fields) ==
    IF fields = <<>> THEN <<"">>
    ELSE IF fields = <<"">> THEN <<QuotedEmpty>>
    ELSE fields

\* line 299: df.to_csv(csv_buffer, index=False), the text in the buffer
to_csv(df) ==
    [fmt |-> "csv",
     lines |-> <<writerow(df.cols)>> \o [i \in 1..Len(df.rows) |-> writerow(df.rows[i])]]

\* lines 300-305: the file the download button hands out
ExportedFile(df) == [name |-> "analyzed_data.csv", content |-> to_csv(df)]

\* the datasets the loader returns for the modelled uploads
LoadedDatasets ==
    {load_uploaded_data(f).ret : f \in {u \in Uploads : u.content.fmt # "binary"}} \ {None}

\* datasets with one column and a missing cell, and with rows but no column
\* (what read_json returns for an array of empty objects)
ExportDatasets ==
    LoadedDatasets \cup
    {[cols |-> <<"a">>, rows |-> r] : r \in {<<(<<"">>)>>, <<(<<"1">>), (<<"">>)>>,
                                             <<(<<"">>), (<<"">>)>>}} \cup
    {[cols |-> <<>>, rows |-> r] : r \in {<<(<<>>)>>, <<(<<>>), (<<>>)>>}}

InitExport ==
    /\ uploaded_file = NoFile
    /\ load_result = NotCalled
    /\ sample_data = None
    /\ widget_state = <<>>
    /\ filtered_df = None
    /\ chart_call = None
    /\ chart_outcome = None
    /\ data_source = "Upload Your Data"
    /\ rendered = None
    /\ chart_config = None
    /\ analysis_df \in ExportDatasets
    /\ quality_report = None
    /\ stat_summary = None
    /\ NoSampleLoaded
    /\ NoSessions

\* the user clicks "Export CSV", downloads the file and uploads it again
ExportCsv ==
    /\ uploaded_file = NoFile
    /\ uploaded_file' = ExportedFile(analysis_df)
    /\ UNCHANGED <<load_result, filterVars, chartVars, pageVars, analysisVars, sampleVars, sessionVars>>

NextExport == ExportCsv \/ LoadUploadedData

SpecExport == InitExport /\ [][NextExport]_vars

\* the exported file has been loaded again
Reloaded == uploaded_file # NoFile /\ load_result.called

RoundTripKeepsShape ==
    /\ load_result.ret # None
    /\ Len(load_result.ret.rows) = Len(analysis_df.rows)
    /\ load_result.ret.cols = analysis_df.cols

\* C22: CSV round trip: for every dataset, exporting it to CSV (without an
\* index column) and loading that CSV again with the loader yields a dataset
\* with the same row count and the same column names in the same order; no
\* extra index column appears.
C22_CsvRoundTrip == Reloaded => RoundTripKeepsShape

\* the round trip keeps the shape of every dataset that has a column
C22_HoldsWithColumns == (Reloaded /\ analysis_df.cols # <<>>) => RoundTripKeepsShape

\* a dataset with rows and no column went through the round trip and the
\* loader returned nothing for it
C22_ColumnlessLost ==
    /\ Reloaded
    /\ analysis_df.cols = <<>>
    /\ Len(analysis_df.rows) = 2
    /\ load_result.ret = None
    /\ load_result.st_error = <<"Error loading file: No columns to parse from file">>

\* a one-column dataset with a missing cell kept its rows
C22_SingleColumnKept ==
    /\ Reloaded
    /\ analysis_df = [cols |-> <<"a">>, rows |-> <<(<<"1">>), (<<"">>)>>]
    /\ RoundTripKeepsShape

(***************************************************************************)
(* Failed renders of the visualization page                                *)
(***************************************************************************)
\* Python str.startswith
StartsWith(s, prefix) ==
    /\ Len(s) >= Len(prefix)
    /\ SubSeq(s, 1, Len(prefix)) = prefix

\* the filter selections the session holds: its entries under a filter key
FilterSelections(ws) ==
    [k \in {key \in DOMAIN ws : StartsWith(key, "filter_")} |-> ws[k]]

\* the last run called a decoder on the uploaded file and the decoder failed
ParseFailed ==
    /\ rendered # None
    /\ data_source = "Upload Your Data"
    /\ load_result.called
    /\ load_result.decoders # {}
    /\ load_result.ret = None

\* the last run called a chart function and the function raised
ChartFailed ==
    /\ rendered # None
    /\ chart_outcome # None
    /\ ~chart_outcome.ok

\* the failure of the last run is on the page as an st.error message
FailureShown ==
    /\ ParseFailed =>
          \E i \in 1..Len(rendered.elements) :
              StartsWith(rendered.elements[i], "st.error: Error loading file: ")
    /\ ChartFailed =>
          \E i \in 1..Len(rendered.elements) :
              StartsWith(rendered.elements[i], "st.error: Failed to create chart: ")

\* the page function ran to its last line, so that route_to_page and main
\* had no exception to handle
RanToEnd == rendered.elements[Len(rendered.elements)] = "logger.debug: page rendered"

\* a rerun in which the user neither changed a filter widget nor asked for
\* the sample dataset
PlainRerun == OpenPage \/ SelectDataSource \/ ChooseChartOption \/ ClickExport

\* C23: no error is fatal and a failure leaves prior state unchanged: when a
\* file fails to parse or a chart fails to build during a render, the
\* failure is shown as a message, no exception propagates out of
\* route_to_page or main, and the session state (stored sample dataset and
\* filter selections) is the same after the failed render as before it.
C23_FailureLeavesState ==
    [][ (PlainRerun /\ (ParseFailed' \/ ChartFailed'))
            => /\ FailureShown'
               /\ RanToEnd'
               /\ sample_data' = sample_data
               /\ FilterSelections(widget_state') = FilterSelections(widget_state) ]_vars

\* a failure is shown as a message, the page function runs to its end and
\* the stored sample dataset stays; a failed chart also keeps the filter
\* selections
C23_HoldsButForFiltersAfterParse ==
    [][ (PlainRerun /\ (ParseFailed' \/ ChartFailed'))
            => /\ FailureShown'
               /\ RanToEnd'
               /\ sample_data' = sample_data
               /\ ChartFailed' =>
                     FilterSelections(widget_state') = FilterSelections(widget_state) ]_vars

\* a failed parse after which the session holds the sample dataset and no
\* filter selection
C23_ParseFailureDroppedFilters ==
    /\ ParseFailed
    /\ sample_data # None
    /\ FilterSelections(widget_state) = <<>>

\* a chart that failed to build
C23_ChartFailure == ChartFailed /\ FailureShown /\ RanToEnd

(***************************************************************************)
(* Browser sessions.  Every interaction of a user reruns main() for that   *)
(* user's session: app.py:127 sets the log level, the sidebar is rendered  *)
(* and route_to_page renders the selected page.  st.session_state belongs  *)
(* to one session; the st.cache_data entry, numpy's global generator and   *)
(* the log level belong to the server process.  After a run Streamlit      *)
(* keeps the session entries that are no widget's and those of the widgets *)
(* the run rendered.  No file is uploaded in these sessions.  The record   *)
(* of a run tells whether its load_sample_data call was answered from the  *)
(* cache.                                                                  *)
(***************************************************************************)
Sessions == {"s1", "s2"}

\* sidebar.py:35, the options of the "Select Page" widget
Pages == <<"home", "data_analysis", "visualization", "settings">>

\* the levels a user applies on the settings page, of those of settings.py:97
AppliedLevels == {"DEBUG"}

\* app.py:127, setup_logging(level="INFO", format="console")
setup_logging == "INFO"

\* settings.py:109, set_log_level(current_log_level)
set_log_level(level) == level

\* what a run of the function leaves in the cache and hands to its caller
Computed(out) ==
    [df |-> out.df, cache |-> out.df, state |-> out.state, cached |-> FALSE]

\* charts.py:214, st.cache_data around load_sample_data: the function has no
\* argument, so the cache holds one entry, whoever calls
cache_data(cache, state) ==
    IF cache # None
    THEN [df |-> cache, cache |-> cache, state |-> state, cached |-> TRUE]
    ELSE Computed(load_sample_data(state))

\* a reset that deletes every entry of the session
reset_settings_everything(state) == <<>>

\* settings.py:251-255: the entries left by the loop of "Reset Settings"
reset_settings(state) ==
    [k \in {key \in DOMAIN state :
               ~(StartsWith(key, "filter_") \/ key \in {"sample_data"})} |-> state[k]]

\* sidebar.py:33-43: the page the "Select Page" widget yields
SelectedPage(state) ==
    IF "page_selection" \in DOMAIN state THEN state["page_selection"] ELSE Pages[1]

\* the entries of a session that are no widget's
Stored(state) == [k \in DOMAIN state \cap {"sample_data"} |-> state[k]]

\* visualization.py:220-231: the session after the sample data section
SampleSection(state, load_clicked, loaded) ==
    IF load_clicked THEN ("sample_data" :> loaded) @@ state ELSE state

\* visualization.py:212-231: the dataset of a run, None when there is none
RunData(state, source) ==
    IF source = "Use Sample Data" /\ "sample_data" \in DOMAIN state
    THEN state["sample_data"] ELSE None

\* the values of the widgets with the given defaults
WidgetValues(defaults, state) ==
    [k \in DOMAIN defaults |-> IF k \in DOMAIN state THEN state[k] ELSE defaults[k]]

\* visualization.py:238: the filter widgets rendered for the dataset with
\* the values the session holds for them, their defaults otherwise
SessionFilters(df, state) ==
    IF df = None THEN <<>> ELSE WidgetValues(RenderedDefaults(df), state)

\* what a run of main() tells about itself: the page and the data source it
\* rendered, the button clicked, whether the page had a dataset and how
\* load_sample_data was answered
RunOf(page, source, clicked, df, cached) ==
    [page |-> page, source |-> source, clicked |-> clicked,
     df |-> df # None, cached |-> cached]

\* the session entries after a run of the page the session selects
AfterRun(state, source) ==
    ("page_selection" :> SelectedPage(state))
        @@ (IF SelectedPage(state) = "visualization"
            THEN SessionFilters(RunData(state, source), state) ELSE <<>>)
        @@ Stored(state)

InitSessions ==
    /\ uploaded_file = NoFile
    /\ load_result = NotCalled
    /\ sample_data = None
    /\ widget_state = <<>>
    /\ filtered_df = None
    /\ chart_call = None
    /\ chart_outcome = None
    /\ data_source = DataSources[1]
    /\ rendered = None
    /\ NothingAnalysed
    /\ NoSampleLoaded
    /\ session_state = [s \in Sessions |-> ("page_selection" :> Pages[1])]
    /\ enable_caching = [s \in Sessions |-> TRUE]     \* sidebar.py:94 and 99
    /\ log_level = setup_logging
    /\ last_run = [s \in Sessions |-> RunOf(Pages[1], DataSources[1], "none", None, "none")]

\* a run of session s that leaves it with the given entries
SessionRun(s, state, source, clicked, cached, level) ==
    /\ session_state' = [session_state EXCEPT ![s] = AfterRun(state, source)]
    /\ last_run' = [last_run EXCEPT ![s] =
                       RunOf(SelectedPage(state), source, clicked,
                             IF SelectedPage(state) = "visualization"
                             THEN RunData(state, source) ELSE None,
                             cached)]
    /\ log_level' = level
    /\ UNCHANGED <<loadVars, filterVars, chartVars, pageVars, analysisVars>>

\* the user picks another page in the sidebar; a radio that was not on the
\* page before shows its first option
Navigate(s) ==
    /\ \E p \in Range(Pages) \ {SelectedPage(session_state[s])} :
           SessionRun(s, [session_state[s] EXCEPT !["page_selection"] = p],
                      DataSources[1], "none", "none", setup_logging)
    /\ UNCHANGED <<enable_caching, sampleVars>>

\* the user picks a data source on the visualization page
SelectSource(s) ==
    /\ last_run[s].page = "visualization"
    /\ \E source \in Range(DataSources) \ {last_run[s].source} :
           SessionRun(s, session_state[s], source, "none", "none", setup_logging)
    /\ UNCHANGED <<enable_caching, sampleVars>>

\* visualization.py:223-227: the user clicks "Load Sample Data"
SessionLoadSampleData(s) ==
    /\ last_run[s].page = "visualization"
    /\ last_run[s].source = "Use Sample Data"
    /\ \E out \in {cache_data(sample_cache, rng_state)} :
           /\ rng_state' = out.state
           /\ sample_cache' = out.cache
           /\ SessionRun(s, SampleSection(session_state[s], TRUE, out.df),
                         "Use Sample Data", "load_sample_data",
                         IF out.cached THEN "hit" ELSE "miss", setup_logging)
    /\ UNCHANGED <<enable_caching, sample_returns>>

\* the selections a user changes a filter widget to
FilterChoices(df, key) ==
    IF key = MultiselectKey("category") THEN {Unique(df, "category"), {"A"}} ELSE {}

\* the user changes a filter widget of the visualization page
ChangeFilter(s) ==
    /\ last_run[s].page = "visualization"
    /\ last_run[s].df
    /\ \E key \in {MultiselectKey("category")} \cap DOMAIN session_state[s] :
           \E v \in FilterChoices(session_state[s]["sample_data"], key)
                        \ {session_state[s][key]} :
               SessionRun(s, [session_state[s] EXCEPT ![key] = v],
                          last_run[s].source, "none", "none", setup_logging)
    /\ UNCHANGED <<enable_caching, sampleVars>>

\* sidebar.py:92-96: the user ticks or unticks "Enable Data Caching"
ToggleCaching(s) ==
    /\ enable_caching' = [enable_caching EXCEPT ![s] = ~@]
    /\ SessionRun(s, session_state[s], last_run[s].source, "none", "none", setup_logging)
    /\ UNCHANGED sampleVars

\* settings.py:260-262: the user clicks "Clear Cache"
SessionClearCache(s) ==
    /\ last_run[s].page = "settings"
    /\ sample_cache' = None
    /\ SessionRun(s, session_state[s], last_run[s].source, "clear_cache", "none",
                  setup_logging)
    /\ UNCHANGED <<enable_caching, rng_state, sample_returns>>

\* settings.py:108-111: the user clicks "Apply Log Level"
ApplyLogLevel(s) ==
    /\ last_run[s].page = "settings"
    /\ \E level \in AppliedLevels :
           SessionRun(s, session_state[s], last_run[s].source, "apply_log_level", "none",
                      set_log_level(level))
    /\ UNCHANGED <<enable_caching, sampleVars>>

\* settings.py:249-257: the user clicks "Reset Settings"; st.rerun() runs
\* the script again at once
ResetSettings(s) ==
    /\ last_run[s].page = "settings"
    /\ SessionRun(s, reset_settings(session_state[s]), last_run[s].source,
                  "reset_settings", "none", setup_logging)
    /\ UNCHANGED <<enable_caching, sampleVars>>

\* what a user does in session s
SessionStep(s) ==
    \/ Navigate(s)
    \/ SelectSource(s)
    \/ SessionLoadSampleData(s)
    \/ ChangeFilter(s)
    \/ ToggleCaching(s)
    \/ SessionClearCache(s)
    \/ ApplyLogLevel(s)
    \/ ResetSettings(s)

NextSessions == \E s \in Sessions : SessionStep(s)

SpecSessions == InitSessions /\ [][NextSessions]_vars

\* sessions in which nobody resets the settings, applies a log level or
\* changes a filter
NextCaching ==
    \E s \in Sessions :
        \/ Navigate(s)
        \/ SelectSource(s)
        \/ SessionLoadSampleData(s)
        \/ ToggleCaching(s)
        \/ SessionClearCache(s)

SpecCaching == InitSessions /\ [][NextCaching]_vars

(***************************************************************************)
(* Claims about sessions                                                   *)
(***************************************************************************)
\* the session's load_sample_data call of this step did not run the function
GenerationSkipped(s) == SessionLoadSampleData(s) /\ last_run'[s].cached = "hit"

\* the session has had the dataset from load_sample_data before
LoadedBefore(s) == "sample_data" \in DOMAIN session_state[s]

\* C24: caching of the generated sample dataset is opt-in and keyed by
\* session: generation is skipped only when the caching option is enabled
\* and that same session already holds a cached value; with caching
\* disabled, or in a session that has not yet generated the dataset,
\* load_sample_data recomputes it.
C24_CachingOptInPerSession ==
    [][ \A s \in Sessions :
            GenerationSkipped(s) => (enable_caching[s] /\ LoadedBefore(s)) ]_vars

\* generation is skipped exactly when the process holds a cache entry,
\* whatever the session and its caching option
C24_SkippedIffProcessHoldsEntry ==
    [][ \A s \in Sessions :
            SessionLoadSampleData(s) =>
                (last_run'[s].cached = "hit" <=> sample_cache # None) ]_vars

\* a session with caching disabled was answered from the cache
C24_HitWithCachingDisabled ==
    \E s \in Sessions : last_run[s].cached = "hit" /\ ~enable_caching[s]


\* what session s holds: its session entries, its sidebar option and what
\* its last run rendered
Holds(s) == <<session_state[s], enable_caching[s], last_run[s]>>

\* what a call of load_sample_data would now give a session, and whether it
\* would run the function
LoadAnswer ==
    [df |-> cache_data(sample_cache, rng_state).df,
     cached |-> cache_data(sample_cache, rng_state).cached]

\* what session s holds and what its next run would observe of the process
Observes(s) == <<Holds(s), LoadAnswer, log_level>>

\* C25: two concurrent user sessions share no mutable state: for any
\* interleaving of the actions of two sessions (load sample data, clear
\* cache, apply log level, reset settings, change filters), nothing one
\* session does changes any value the other session later observes or the
\* state it holds.
C25_SessionsShareNothing ==
    [][ \A a \in Sessions :
            SessionStep(a) => \A b \in Sessions \ {a} : Observes(b)' = Observes(b) ]_vars

\* in every step at most one session's held state changes
C25_HeldStateIsolated ==
    [][ \E a \in Sessions : \A b \in Sessions \ {a} : Holds(b)' = Holds(b) ]_vars

\* a session whose load is answered from the cache although it has never
\* had the dataset: the other session's call stored the entry
C25_AnsweredFromOthersEntry ==
    \E a \in Sessions :
        /\ "sample_data" \notin DOMAIN session_state[a]
        /\ \E b \in Sessions \ {a} : last_run[b].cached = "miss"
        /\ LoadAnswer.cached


\* the run that session s ends the step with is the one of "Reset Settings"
ResetRun(s) == last_run'[s].clicked = "reset_settings"

\* the session keys "Reset Settings" is said to delete
ResetKeys(state) ==
    {key \in DOMAIN state : StartsWith(key, "filter_") \/ key = "sample_data"}

\* the entries of a session but for the keys "Reset Settings" deletes
KeptEntries(state) == [k \in DOMAIN state \ ResetKeys(state) |-> state[k]]

\* the run of session s rendered the visualization page with the sample
\* data source
SampleSourceRun(s) ==
    last_run[s].page = "visualization" /\ last_run[s].source = "Use Sample Data"

\* C27: on the visualization page, once 'Load Sample Data' has been clicked
\* the dataset is stored in the session and every later rerun with source
\* 'Use Sample Data' uses it without a new click, until 'Reset Settings' is
\* pressed; 'Reset Settings' deletes exactly the session keys that start
\* with 'filter_' and the key 'sample_data', and leaves every other session
\* key (such as the page selection) unchanged.
C27_SampleKeptUntilReset ==
    [][ \A s \in Sessions :
            /\ (LoadedBefore(s) /\ ~ResetRun(s)) =>
                   /\ LoadedBefore(s)'
                   /\ session_state'[s]["sample_data"] = session_state[s]["sample_data"]
            /\ (LoadedBefore(s)' /\ SampleSourceRun(s)') => last_run'[s].df
            /\ (ResetRun(s) /\ Holds(s)' # Holds(s)) =>
                   session_state'[s] = KeptEntries(session_state[s]) ]_vars

\* one session rendered the stored dataset in a rerun without a click while
\* the other has pressed 'Reset Settings' and holds its page selection only
C27_Witness ==
    \E s, t \in Sessions :
        /\ SampleSourceRun(s) /\ last_run[s].clicked = "none" /\ last_run[s].df
        /\ last_run[t].clicked = "reset_settings"
        /\ session_state[t] = ("page_selection" :> "settings")
        /\ sample_cache # None


(***************************************************************************)
(* The data analysis page, data_analysis.py:230-348.  Every interaction    *)
(* with a widget reruns the page; a button is True only in the rerun its   *)
(* click triggers, and one rerun has one trigger.  The sidebar's file is   *)
(* chosen in the initial state, among files that are missing, cannot be    *)
(* loaded, or hold at least one row.                                       *)
(***************************************************************************)
PreviewModes == <<"Head", "Tail", "Sample", "All">>     \* data_analysis.py:105

\* lines 297, 308 and 319: the export buttons, and the file each offers
ExportButtons == <<"Export CSV", "Export JSON", "Export Summary">>

DownloadNames == <<"analyzed_data.csv", "analyzed_data.json", "data_summary.json">>

AnalysisUploads ==
    { NoFile,
      [name |-> "d.txt", content |-> [fmt |-> "csv", lines |-> <<(<<"a">>), (<<"1">>)>>]],
      [name |-> "d.csv", content |-> [fmt |-> "csv", lines |-> <<(<<"a">>), (<<"1">>)>>]],
      [name |-> "d.csv", content |-> [fmt |-> "csv", lines |-> <<(<<"a", "b">>), (<<"1", "2">>)>>]],
      [name |-> "d.csv", content |-> [fmt |-> "csv", lines |-> <<(<<"a", "b">>), (<<"1", "2">>), (<<"", "2">>)>>]] }

\* a page that takes the dataset of the run before when the button is not
\* clicked
analysis_data_kept(upload, loaded, load_clicked, previous) ==
    IF upload
    THEN IF loaded.called /\ loaded.ret # None THEN TypedFrame(loaded.ret) ELSE None
    ELSE IF load_clicked THEN SampleFrame ELSE previous

\* lines 254-265: the dataset of the run
analysis_data(upload, loaded, load_clicked, previous) ==
    IF upload
    THEN IF loaded.called /\ loaded.ret # None THEN TypedFrame(loaded.ret) ELSE None
    ELSE IF load_clicked THEN SampleFrame ELSE None

\* lines 242-265: what the page shows before the dataset is looked at
AnalysisHead(upload, file, loaded, load_clicked) ==
    <<"st.title", "st.radio">> \o
    (IF upload
     THEN IF file # NoFile
          THEN <<"load_uploaded_data">>
               \o [i \in 1..Len(loaded.st_error) |-> "st.error: " \o loaded.st_error[i]]
          ELSE <<"st.info: Please upload a file using the sidebar.">>
     ELSE <<"st.button: Load Sample Data">>
          \o (IF load_clicked THEN <<"load_sample_data", "st.success">> ELSE <<>>))

\* lines 297-346: the export buttons, each followed by its download button
\* in the rerun its click triggers
ExportOptions(trigger) ==
    <<"st.subheader: Export Options">> \o
    (<<"st.button: Export CSV">> \o
        (IF trigger = ExportButtons[1]
         THEN <<"st.download_button: " \o DownloadNames[1]>> ELSE <<>>)) \o
    (<<"st.button: Export JSON">> \o
        (IF trigger = ExportButtons[2]
         THEN <<"st.download_button: " \o DownloadNames[2]>> ELSE <<>>)) \o
    (<<"st.button: Export Summary">> \o
        (IF trigger = ExportButtons[3]
         THEN <<"st.download_button: " \o DownloadNames[3]>> ELSE <<>>))

\* lines 268-346: the sections of the page for the dataset df, None included
AnalysisBody(df, trigger) ==
    IF df # None
    THEN <<"render_data_overview", "render_data_preview", "render_statistical_summary",
           "render_data_quality_check">> \o ExportOptions(trigger)
    ELSE <<>>

\* the run of the page with the dataset df
AnalysisRun(loaded, df, head, trigger, preview_mode) ==
    [load_result |-> loaded,
     df |-> df,
     widgets |-> IF df # None THEN ("Preview Mode" :> preview_mode) ELSE <<>>,
     rendered |-> [trigger |-> trigger,
                   elements |-> head \o AnalysisBody(df, trigger)
                                     \o <<"logger.debug: page rendered">>]]

AnalysisWith(upload, file, loaded, previous, trigger, preview_mode) ==
    AnalysisRun(loaded,
                analysis_data(upload, loaded, trigger = "Load Sample Data", previous),
                AnalysisHead(upload, file, loaded, trigger = "Load Sample Data"),
                trigger, preview_mode)

render_data_analysis_page(file, source, previous, trigger, preview_mode) ==
    AnalysisWith(source = "Upload Your Data", file,
                 IF source = "Upload Your Data" /\ file # NoFile
                 THEN load_uploaded_data(file) ELSE NotCalled,
                 previous, trigger, preview_mode)

InitAnalysisPage ==
    /\ uploaded_file \in AnalysisUploads
    /\ load_result = NotCalled
    /\ sample_data = None
    /\ widget_state = <<>>
    /\ filtered_df = None
    /\ chart_call = None
    /\ chart_outcome = None
    /\ data_source = DataSources[1]
    /\ rendered = None
    /\ NothingAnalysed
    /\ NoSampleLoaded
    /\ NoSessions

\* the preview preview_mode the page shows: the widget's value while it is on the
\* page, its first option when it appears
PreviewMode == IF "Preview Mode" \in DOMAIN widget_state
               THEN widget_state["Preview Mode"] ELSE PreviewModes[1]

RunAnalysisPage(source, trigger, preview_mode) ==
    \E out \in {render_data_analysis_page(uploaded_file, source, analysis_df,
                                          trigger, preview_mode)} :
        /\ data_source' = source
        /\ load_result' = out.load_result
        /\ analysis_df' = out.df
        /\ widget_state' = out.widgets
        /\ rendered' = out.rendered
        /\ UNCHANGED <<uploaded_file, sample_data, filtered_df, chartVars, chart_config,
                       quality_report, stat_summary, sampleVars, sessionVars>>

OpenAnalysisPage == RunAnalysisPage(data_source, "open", PreviewMode)

AnalysisSelectDataSource ==
    /\ rendered # None
    /\ \E s \in Range(DataSources) \ {data_source} :
           RunAnalysisPage(s, "Select Data Source", PreviewMode)

\* line 262: the user clicks "Load Sample Data"
AnalysisLoadSampleData ==
    /\ rendered # None
    /\ "st.button: Load Sample Data" \in Range(rendered.elements)
    /\ RunAnalysisPage(data_source, "Load Sample Data", PreviewMode)

\* lines 103-107: the user picks another preview preview_mode
SelectPreviewMode ==
    /\ rendered # None
    /\ "Preview Mode" \in DOMAIN widget_state
    /\ \E preview_mode \in Range(PreviewModes) \ {PreviewMode} :
           RunAnalysisPage(data_source, "Preview Mode", preview_mode)

\* lines 297, 308 and 319: the user clicks an export button
AnalysisClickExport ==
    /\ rendered # None
    /\ "st.subheader: Export Options" \in Range(rendered.elements)
    /\ \E button \in Range(ExportButtons) :
           RunAnalysisPage(data_source, button, PreviewMode)

NextAnalysisPage ==
    \/ OpenAnalysisPage
    \/ AnalysisSelectDataSource
    \/ AnalysisLoadSampleData
    \/ SelectPreviewMode
    \/ AnalysisClickExport

SpecAnalysisPage == InitAnalysisPage /\ [][NextAnalysisPage]_vars

(***************************************************************************)
(* Claims about the data analysis page                                     *)
(***************************************************************************)
\* the run rendered the analysis sections and the export buttons
SectionsRendered ==
    /\ "render_data_overview" \in Range(rendered.elements)
    /\ "st.button: Export CSV" \in Range(rendered.elements)

\* the run rendered a download button
DownloadReached ==
    \E i \in 1..Len(DownloadNames) :
        ("st.download_button: " \o DownloadNames[i]) \in Range(rendered.elements)

\* C26: on the data analysis page with source 'Use Sample Data', the sample
\* dataset is not kept between reruns: the analysis sections and the export
\* buttons are rendered in a rerun if and only if 'Load Sample Data' is the
\* button clicked in that rerun, so a rerun triggered by any other widget
\* (changing the preview preview_mode, clicking 'Export CSV', 'Export JSON' or
\* 'Export Summary') renders no dataset and never reaches the corresponding
\* download button.
C26_SampleNotKeptBetweenReruns ==
    (rendered # None /\ data_source = "Use Sample Data") =>
        /\ SectionsRendered <=> rendered.trigger = "Load Sample Data"
        /\ analysis_df # None <=> rendered.trigger = "Load Sample Data"
        /\ ~DownloadReached

\* after the sample dataset was loaded the user clicked 'Export CSV': the
\* rerun rendered no section and no download button
C26_Witness ==
    /\ rendered # None
    /\ data_source = "Use Sample Data"
    /\ rendered.trigger = "Export CSV"
    /\ ~SectionsRendered
    /\ ~DownloadReached

\* with an uploaded file the click on 'Export CSV' reaches its download button
C26_UploadReachesDownload ==
    /\ rendered # None
    /\ data_source = "Upload Your Data"
    /\ rendered.trigger = "Export CSV"
    /\ DownloadReached


(***************************************************************************)
(* Claims about the filter controls left at their defaults                 *)
(***************************************************************************)
\* the filter has run and every control it rendered is at its default
AllAtDefault ==
    filtered_df # None /\ widget_state = RenderedDefaults(sample_data)

\* a row holds a missing value in a numeric column that has a slider
MissingUnderSlider ==
    \E col \in Range(select_dtypes(sample_data, {"number"})) :
        /\ SliderOffered(sample_data, col)
        /\ NaN \in Values(sample_data, sample_data.rows, col)

\* C28: with every filter control left at its default (each numeric slider
\* spanning the column's full min..max, each categorical selection
\* containing all distinct values), render_data_filtering returns a dataset
\* with exactly the rows of its input, including rows that hold a missing
\* value in a numeric column.
C28_DefaultsKeepEveryRow == AllAtDefault => filtered_df.rows = sample_data.rows

\* the defaults keep every row of a dataset that has no missing value in a
\* numeric column with a slider
C28_HoldsWithoutMissingNumbers ==
    (AllAtDefault /\ ~MissingUnderSlider) => filtered_df.rows = sample_data.rows

\* at the defaults the rows with a missing value under a slider, and only
\* those, are dropped
C28_DefaultsDropMissingNumbers ==
    AllAtDefault =>
        filtered_df.rows =
            SelectSeq(sample_data.rows,
                      LAMBDA r : \A col \in Range(select_dtypes(sample_data, {"number"})) :
                                    SliderOffered(sample_data, col) =>
                                        r[ColIndex(sample_data, col)] # NaN)

\* every control is at its default and a row is gone
C28_RowDroppedAtDefaults ==
    AllAtDefault /\ Len(filtered_df.rows) < Len(sample_data.rows)


(***************************************************************************)
(* render_data_preview, data_analysis.py:87-134, for datasets of 0 up to   *)
(* MaxPreviewRows rows and every max_rows from 1 to MaxPreviewRows + 1.    *)
(* Of a preview the number of rows it displays is kept.                    *)
(***************************************************************************)
MaxPreviewRows == 11       \* rows of a dataset given to the preview

DefaultRows == 10          \* data_analysis.py:115, value=min(10, len(df))

MinRows == 1               \* data_analysis.py:113, min_value=1

Min(a, b) == IF a <= b THEN a ELSE b

\* a dataset of n rows
PreviewFrame(n) ==
    [cols |-> <<"a">>, dtypes |-> <<"number">>, rows |-> [i \in 1..n |-> <<i>>]]

\* lines 111-117: the arguments of the "Rows" input
number_input(df, max_rows) ==
    [min_value |-> MinRows,
     max_value |-> Min(max_rows, Len(df.rows)),
     value |-> Min(DefaultRows, Len(df.rows))]

\* st.number_input raises when its value is outside min_value..max_value
Rejected(args) == args.value < args.min_value \/ args.value > args.max_value

\* lines 122-129: the number of rows of preview_df
PreviewLen(df, max_rows, preview_mode, n_rows) ==
    CASE preview_mode = "Head" -> Min(n_rows, Len(df.rows))
      [] preview_mode = "Tail" -> Min(n_rows, Len(df.rows))
      [] preview_mode = "Sample" -> Min(n_rows, Len(df.rows))
      [] OTHER -> Min(max_rows, Len(df.rows))

\* the preview for the given arguments of the input: no row is displayed
\* when the input raises
PreviewWith(df, max_rows, preview_mode, args, ws) ==
    IF preview_mode # "All" /\ Rejected(args)
    THEN [preview_mode |-> preview_mode, number_input |-> args, raised |-> TRUE,
          shown |-> 0, widgets |-> ("Preview Mode" :> preview_mode)]
    ELSE IF preview_mode # "All"
    THEN [preview_mode |-> preview_mode, number_input |-> args, raised |-> FALSE,
          shown |-> PreviewLen(df, max_rows, preview_mode,
                               WidgetValue(ws, "Rows", args.value)),
          widgets |-> ("Preview Mode" :> preview_mode)
                          @@ ("Rows" :> WidgetValue(ws, "Rows", args.value))]
    ELSE [preview_mode |-> preview_mode, number_input |-> None, raised |-> FALSE,
          shown |-> PreviewLen(df, max_rows, preview_mode, Len(df.rows)),
          widgets |-> ("Preview Mode" :> preview_mode)]

\* lines 87-134, with the session's values of the two widgets
render_data_preview(df, max_rows, ws) ==
    PreviewWith(df, max_rows, WidgetValue(ws, "Preview Mode", PreviewModes[1]),
                number_input(df, max_rows), ws)

InitPreview ==
    /\ uploaded_file = NoFile
    /\ load_result = NotCalled
    /\ sample_data = None
    /\ widget_state \in {("Max Rows to Display" :> m) : m \in 1..(MaxPreviewRows + 1)}
    /\ filtered_df = None
    /\ chart_call = None
    /\ chart_outcome = None
    /\ data_source = DataSources[1]
    /\ rendered = None
    /\ chart_config = None
    /\ analysis_df \in {PreviewFrame(n) : n \in 0..MaxPreviewRows}
    /\ quality_report = NotRendered
    /\ stat_summary = None
    /\ NoSampleLoaded
    /\ NoSessions

\* max_rows of the sidebar
PreviewMaxRows == widget_state["Max Rows to Display"]

RunPreview(ws) ==
    \E out \in {render_data_preview(analysis_df, PreviewMaxRows, ws)} :
        /\ rendered' = [preview_mode |-> out.preview_mode,
                        number_input |-> out.number_input,
                        raised |-> out.raised, shown |-> out.shown]
        /\ widget_state' = ("Max Rows to Display" :> PreviewMaxRows) @@ out.widgets
        /\ UNCHANGED <<loadVars, sample_data, filtered_df, chartVars, data_source,
                       analysisVars, sampleVars, sessionVars>>

RenderDataPreview ==
    /\ rendered = None
    /\ RunPreview(widget_state)

\* lines 103-107: the user picks another preview mode
PreviewSelectMode ==
    /\ rendered # None
    /\ \E m \in Range(PreviewModes) \ {rendered.preview_mode} :
           RunPreview(("Preview Mode" :> m) @@ widget_state)

\* lines 111-117: the user sets the number of rows, within the input's bounds
PreviewSetRows ==
    /\ rendered # None
    /\ "Rows" \in DOMAIN widget_state
    /\ \E n \in rendered.number_input.min_value..rendered.number_input.max_value :
           /\ n # widget_state["Rows"]
           /\ RunPreview(("Rows" :> n) @@ widget_state)

NextPreview == RenderDataPreview \/ PreviewSelectMode \/ PreviewSetRows

SpecPreview == InitPreview /\ [][NextPreview]_vars

(***************************************************************************)
(* Claims about the preview                                                *)
(***************************************************************************)
\* min(max_rows, row count)
RowLimit == Min(PreviewMaxRows, Len(analysis_df.rows))

\* the bounds of the "Rows" input are consistent
BoundsConsistent(args) ==
    /\ args.min_value = 1
    /\ args.max_value = RowLimit
    /\ args.value = Min(10, Len(analysis_df.rows))
    /\ args.min_value <= args.value
    /\ args.value <= args.max_value

\* C29: in render_data_preview, for every dataset (including one with zero
\* rows) and every max_rows, the bounds of the row-count input are
\* consistent (minimum 1 <= default value <= maximum, where maximum =
\* min(max_rows, row count) and default = min(10, row count)), and the
\* number of rows displayed never exceeds min(max_rows, row count) in any
\* preview mode.
C29_PreviewBounds ==
    rendered # None =>
        /\ BoundsConsistent(number_input(analysis_df, PreviewMaxRows))
        /\ rendered.shown <= RowLimit

\* the bounds are consistent for a dataset with a row when max_rows is at
\* least the default or at least the row count, and no preview displays
\* more than min(max_rows, row count) rows
C29_HoldsWithRowsAndRoom ==
    rendered # None =>
        /\ (Len(analysis_df.rows) >= 1
               /\ (PreviewMaxRows >= 10 \/ PreviewMaxRows >= Len(analysis_df.rows)))
            <=> BoundsConsistent(number_input(analysis_df, PreviewMaxRows))
        /\ rendered.shown <= RowLimit

\* the preview of a dataset with zero rows: the input is given the minimum
\* 1, the maximum 0 and the default 0
C29_ZeroRows ==
    /\ rendered # None
    /\ Len(analysis_df.rows) = 0
    /\ rendered.raised
    /\ rendered.number_input.value < rendered.number_input.min_value

\* a preview whose default exceeds the maximum
C29_DefaultAboveMaximum ==
    /\ rendered # None
    /\ rendered.raised
    /\ rendered.number_input.value > rendered.number_input.max_value


(***************************************************************************)
(* The keys render_data_filtering gives its widgets, visualization.py      *)
(* 148-179, for datasets of two or three columns whose names and kinds     *)
(* vary.                                                                   *)
(***************************************************************************)
KeyColumnNames == {"a", "b", "cat_a", "cat_b"}

\* the sequences of two or three different column names
NameLists ==
    {q \in SeqsUpTo(KeyColumnNames, 3) :
        Len(q) >= 2 /\ \A i, j \in 1..Len(q) : q[i] = q[j] => i = j}

\* two rows in which every numeric column has a spread and every text
\* column two values
KeyFrame(cols, dtypes) ==
    [cols |-> cols, dtypes |-> dtypes,
     rows |-> [r \in 1..2 |->
                  [i \in 1..Len(cols) |->
                      IF dtypes[i] = "number" THEN r - 1
                      ELSE IF r = 1 THEN "x" ELSE "y"]]]

\* lines 148-179: the keys of the widgets of one run, in the order in which
\* the run creates them
widget_keys(df) ==
    LET num == SelectSeq(select_dtypes(df, {"number"}),
                         LAMBDA c : SliderOffered(df, c))
        cat == SelectSeq(select_dtypes(df, {"object", "category"}),
                         LAMBDA c : MultiselectOffered(df, c))
    IN  [i \in 1..Len(num) |-> SliderKey(num[i])]
            \o [i \in 1..Len(cat) |-> MultiselectKey(cat[i])]

InitKeys ==
    /\ uploaded_file = NoFile
    /\ load_result = NotCalled
    /\ \E cols \in NameLists :
           \E dtypes \in [1..Len(cols) -> {"number", "object"}] :
               sample_data = KeyFrame(cols, dtypes)
    /\ widget_state = <<>>
    /\ filtered_df = None
    /\ chart_call = None
    /\ chart_outcome = None
    /\ data_source = "Use Sample Data"
    /\ rendered = None
    /\ NothingAnalysed
    /\ NoSampleLoaded
    /\ NoSessions

\* the filter controls are rendered for the dataset
RenderFilterControls ==
    /\ rendered = None
    /\ rendered' = [keys |-> widget_keys(sample_data)]
    /\ UNCHANGED <<loadVars, filterVars, chartVars, data_source, analysisVars,
                   sampleVars, sessionVars>>

NextKeys == RenderFilterControls

SpecKeys == InitKeys /\ [][NextKeys]_vars

(***************************************************************************)
(* Claims about the widget keys                                            *)
(***************************************************************************)
PairwiseDistinct(keys) == \A i, j \in 1..Len(keys) : keys[i] = keys[j] => i = j

\* a numeric column is named "cat_" followed by the name of a text column
PrefixedPair(df) ==
    \E n \in Range(select_dtypes(df, {"number"})) :
        \E c \in Range(select_dtypes(df, {"object", "category"})) : n = "cat_" \o c

\* C30: for every dataset, the widget keys that render_data_filtering
\* assigns to its filter controls ('filter_' + name for numeric columns,
\* 'filter_cat_' + name for categorical columns) are pairwise distinct, so
\* no two controls of one render share a key (for example a numeric column
\* named 'cat_a' next to a categorical column named 'a').
C30_KeysPairwiseDistinct == rendered # None => PairwiseDistinct(rendered.keys)

\* the keys are pairwise distinct exactly for the datasets without a
\* numeric column named "cat_" and the name of a text column
C30_DistinctUnlessPrefixed ==
    rendered # None => (PairwiseDistinct(rendered.keys) <=> ~PrefixedPair(sample_data))

\* a numeric column cat_a next to a text column a: both controls get the key
\* filter_cat_a
C30_SharedKey ==
    /\ rendered # None
    /\ sample_data.cols = <<"cat_a", "a">>
    /\ sample_data.dtypes = <<"number", "object">>
    /\ rendered.keys = <<"filter_cat_a", "filter_cat_a">>

=============================================================================
